---- MODULE Spec2Model ----
(***************************************************************************)
(* A model of dissect.esedb: the page store, the B+ tree cursor (btree.py),  *)
(* the index cursor (cursor.py), leaf iteration (page.py), long values,     *)
(* records and index selection (table.py, record.py).                       *)
(*                                                                          *)
(* Byte strings are sequences of naturals; Python's 0-based node numbers    *)
(* are kept, so node i of a page is nodes[i + 1].                           *)
(***************************************************************************)
EXTENDS Integers, Sequences, FiniteSets, TLC

VARIABLES
    pages,  \* the database: logical page number -> parsed Page (EseDB.page)
    tbl,    \* what the catalog knows of the tree or table under study
    bt,     \* a BTree object: [_page, _page_num, _node_num]
    cur,    \* a Cursor object: its index, _primary and _secondary BTree
    mon,    \* observer of the call sequence search, next, prev, record
    walk,   \* a running iter_leaf_nodes(): its nested generator frames
    res     \* the last operation and what it returned or raised

vars == <<pages, tbl, bt, cur, mon, walk, res>>

Idle == "idle"      \* value of a variable the specification at hand does not use

(***************************************************************************)
(* Bounds of the model.                                                     *)
(***************************************************************************)
MaxKeys == 3        \* leaf entries of a generated tree
MaxCap == 2         \* nodes per generated leaf page

Fan == 2            \* children per generated branch page
ByteVals == {0, 1}  \* bytes keys of the B+ tree model are written with
KeyLens == {1, 2}   \* lengths of those keys

(***************************************************************************)
(* Byte strings.                                                            *)
(***************************************************************************)
Min(a, b) == IF a < b THEN a ELSE b

RECURSIVE BytesLess(_, _)
\* key < node.key on Python bytes: first the data, then the length.
BytesLess(a, b) ==
    IF a = <<>> THEN b # <<>>
    ELSE IF b = <<>> THEN FALSE
    ELSE IF a[1] # b[1] THEN a[1] < b[1]
    ELSE BytesLess(Tail(a), Tail(b))

BytesLeq(a, b) == a = b \/ BytesLess(a, b)

(***************************************************************************)
(* Pages and nodes (page.py).                                               *)
(***************************************************************************)
node_count(P) == Len(P.nodes)
is_leaf(P) == "Leaf" \in P.flags
is_root(P) == "Root" \in P.flags
is_branch(P) == ~is_leaf(P)

\* EseDB.page(num): the page, or IndexError when the file does not hold it.
HasPage(num) == num \in DOMAIN pages

\* Page.node(num): IndexError outside 0 .. node_count - 1.
NodeInRange(P, num) == ~(num < 0 \/ num > node_count(P) - 1)

\* The Node object: the page it lies on, its number, and its parsed fields.
NodeAt(pn, num) == [page |-> pn, num |-> num] @@ pages[pn].nodes[num + 1]

(***************************************************************************)
(* btree.py: find_node and the BTree cursor.                                *)
(***************************************************************************)
RECURSIVE find_node_loop_inclusive(_, _, _, _)
\* The slip of reading branch keys as inclusive bounds: an exact match on a
\* branch page descends through the matching entry itself.
find_node_loop_inclusive(P, key, first_node_idx, last_node_idx) ==
    IF first_node_idx < last_node_idx
    THEN LET node_idx == (first_node_idx + last_node_idx) \div 2
             nkey == P.nodes[node_idx + 1].key
         IN  IF BytesLess(key, nkey)
             THEN find_node_loop_inclusive(P, key, first_node_idx, node_idx)
             ELSE IF key = nkey THEN node_idx
             ELSE find_node_loop_inclusive(P, key, node_idx + 1, last_node_idx)
    ELSE first_node_idx

RECURSIVE find_node_loop_skip(_, _, _, _)
\* The slip of a binary search that drops the probed node when the key is
\* less than the node's key.
find_node_loop_skip(P, key, first_node_idx, last_node_idx) ==
    IF first_node_idx < last_node_idx
    THEN LET node_idx == (first_node_idx + last_node_idx) \div 2
             nkey == P.nodes[node_idx + 1].key
         IN  IF BytesLess(key, nkey)
             THEN find_node_loop_skip(P, key, first_node_idx, node_idx - 1)
             ELSE IF key = nkey
             THEN (IF is_branch(P)
                   THEN Min(node_idx + 1, node_count(P) - 1)
                   ELSE node_idx)
             ELSE find_node_loop_skip(P, key, node_idx + 1, last_node_idx)
    ELSE first_node_idx

RECURSIVE find_node_loop(_, _, _, _)
\* The binary search of find_node: the number of the node it settles on.
find_node_loop(P, key, first_node_idx, last_node_idx) ==
    IF first_node_idx < last_node_idx
    THEN LET node_idx == (first_node_idx + last_node_idx) \div 2
             nkey == P.nodes[node_idx + 1].key
         IN  IF BytesLess(key, nkey)
             THEN find_node_loop(P, key, first_node_idx, node_idx)
             ELSE IF key = nkey
             THEN (IF is_branch(P)
                   THEN Min(node_idx + 1, node_count(P) - 1)
                   ELSE node_idx)
             ELSE find_node_loop(P, key, node_idx + 1, last_node_idx)
    ELSE first_node_idx

\* page.node(num) as find_node ends with it: the number, or IndexError.
PageNode(P, num) ==
    IF NodeInRange(P, num) THEN [err |-> "ok", num |-> num]
    ELSE [err |-> "IndexError"]

\* The number of the node find_node returns, or the IndexError of page.node().
find_node(P, key) == PageNode(P, find_node_loop(P, key, 0, node_count(P) - 1))

RECURSIVE search_descend(_, _)
\* The while loop of BTree.search from page number pn down to a leaf.
search_descend(pn, key) ==
    IF ~HasPage(pn) THEN [err |-> "IndexError"]
    ELSE LET step(f) ==
                 IF f.err # "ok" THEN f
                 ELSE IF is_branch(pages[pn])
                 THEN search_descend(pages[pn].nodes[f.num + 1].child, key)
                 ELSE [err |-> "ok", page |-> pn, num |-> f.num]
         IN  step(find_node(pages[pn], key))

\* BTree.__init__ and BTree.reset: on the root page, node 0.
BTreeNew(rootnum) == [page |-> rootnum, page_num |-> rootnum, node_num |-> 0]
BTreeReset(b, rootnum) == BTreeNew(rootnum)

\* The cursor as BTree.search leaves it: on node num of page pn.
BTreeAt(pn, num) == [page |-> pn, page_num |-> pn, node_num |-> num]

\* BTree.node(): the current node, or IndexError.
BTreeNode(b) ==
    IF NodeInRange(pages[b.page], b.node_num)
    THEN [err |-> "ok", bt |-> b, ret |-> NodeAt(b.page, b.node_num)]
    ELSE [err |-> "IndexError", bt |-> b]

\* The slip of resuming the binary search at the cursor's node instead of
\* node 0 of the page.
BTreeSearchFromNode(b, key, exact) ==
    LET P == pages[b.page]
        down(n) ==
            IF ~NodeInRange(P, n) THEN [err |-> "IndexError"]
            ELSE IF is_branch(P) THEN search_descend(P.nodes[n + 1].child, key)
            ELSE [err |-> "ok", page |-> b.page, num |-> n]
        landed(d) ==
            IF d.err # "ok" THEN [err |-> d.err, bt |-> b]
            ELSE IF exact /\ key # NodeAt(d.page, d.num).key
            THEN [err |-> "KeyNotFoundError", bt |-> BTreeAt(d.page, d.num)]
            ELSE BTreeNode(BTreeAt(d.page, d.num))
    IN  landed(down(find_node_loop(P, key, Min(b.node_num, node_count(P) - 1),
                                   node_count(P) - 1)))

\* The slip of moving the cursor only once the exact match is known.
BTreeSearchCheckFirst(b, key, exact) ==
    LET landed(d) ==
            IF d.err # "ok" THEN [err |-> d.err, bt |-> b]
            ELSE IF exact /\ key # NodeAt(d.page, d.num).key
            THEN [err |-> "KeyNotFoundError", bt |-> b]
            ELSE BTreeNode(BTreeAt(d.page, d.num))
    IN  landed(search_descend(b.page, key))

\* BTree.search(key, exact): descends from the page the cursor is on.
BTreeSearch(b, key, exact) ==
    LET landed(d) ==
            IF d.err # "ok" THEN [err |-> d.err, bt |-> b]
            ELSE IF exact /\ key # NodeAt(d.page, d.num).key
            THEN [err |-> "KeyNotFoundError", bt |-> BTreeAt(d.page, d.num)]
            ELSE BTreeNode(BTreeAt(d.page, d.num))
    IN  landed(search_descend(b.page, key))

\* The slip of entering the next page without going back to its first node.
BTreeNextPageKeep(b) ==
    LET P == pages[b.page]
    IN  IF P.next_page # 0
        THEN IF HasPage(P.next_page)
             THEN [err |-> "ok", bt |-> [b EXCEPT !.page = P.next_page]]
             ELSE [err |-> "IndexError", bt |-> b]
        ELSE [err |-> "NoNeighbourPageError", bt |-> b]

\* BTree.next_page(): the moved cursor, or NoNeighbourPageError.
BTreeNextPage(b) ==
    LET P == pages[b.page]
    IN  IF P.next_page # 0
        THEN IF HasPage(P.next_page)
             THEN [err |-> "ok", bt |-> [b EXCEPT !.page = P.next_page, !.node_num = 0]]
             ELSE [err |-> "IndexError", bt |-> b]
        ELSE [err |-> "NoNeighbourPageError", bt |-> b]

\* The slip of stepping past the last node before the next page is tried.
BTreeNextAdvance(b) ==
    IF b.node_num + 1 > node_count(pages[b.page]) - 1
    THEN LET m == BTreeNextPage([b EXCEPT !.node_num = b.node_num + 1])
         IN  IF m.err # "ok" THEN m ELSE BTreeNode(m.bt)
    ELSE BTreeNode([b EXCEPT !.node_num = b.node_num + 1])

\* BTree.next().
BTreeNext(b) ==
    IF b.node_num + 1 > node_count(pages[b.page]) - 1
    THEN LET m == BTreeNextPage(b)
         IN  IF m.err # "ok" THEN m ELSE BTreeNode(m.bt)
    ELSE BTreeNode([b EXCEPT !.node_num = b.node_num + 1])

\* The slip of entering the previous page on its first node.
BTreePrevPageFirst(b) ==
    LET P == pages[b.page]
    IN  IF P.previous_page # 0
        THEN IF HasPage(P.previous_page)
             THEN [err |-> "ok", bt |-> [b EXCEPT !.page = P.previous_page, !.node_num = 0]]
             ELSE [err |-> "IndexError", bt |-> b]
        ELSE [err |-> "NoNeighbourPageError", bt |-> b]

\* BTree.prev_page().
BTreePrevPage(b) ==
    LET P == pages[b.page]
    IN  IF P.previous_page # 0
        THEN IF HasPage(P.previous_page)
             THEN [err |-> "ok",
                   bt |-> [b EXCEPT !.page = P.previous_page,
                                    !.node_num = node_count(pages[P.previous_page]) - 1]]
             ELSE [err |-> "IndexError", bt |-> b]
        ELSE [err |-> "NoNeighbourPageError", bt |-> b]

\* BTree.prev().
BTreePrev(b) ==
    IF b.node_num - 1 < 0
    THEN LET m == BTreePrevPage(b)
         IN  IF m.err # "ok" THEN m ELSE BTreeNode(m.bt)
    ELSE BTreeNode([b EXCEPT !.node_num = b.node_num - 1])

(***************************************************************************)
(* Generated databases: B+ trees laid out the way ESE lays them out.  Leaf  *)
(* pages hold the entries in key order and are chained by their sibling     *)
(* links; a branch entry's key is the least key of the next entry's         *)
(* subtree (a non-inclusive upper bound), the last entry's key is empty.    *)
(***************************************************************************)
RECURSIVE Chunks(_, _)
Chunks(s, n) ==
    IF Len(s) <= n THEN <<s>>
    ELSE <<SubSeq(s, 1, n)>> \o Chunks(SubSeq(s, n + 1, Len(s)), n)

LeafLevel(entries, cap, base) ==
    LET ch == Chunks(entries, cap)
        k == Len(ch)
    IN  [i \in 1..k |->
            [flags |-> {"Leaf"} \cup (IF k = 1 THEN {"Root"} ELSE {}),
             previous_page |-> IF i = 1 THEN 0 ELSE base + i - 1,
             next_page |-> IF i = k THEN 0 ELSE base + i + 1,
             nodes |-> ch[i]]]

RECURSIVE BranchLevels(_, _, _)
\* items: the pages of the level below, each with the least key under it.
BranchLevels(items, fan, base) ==
    IF Len(items) <= 1 THEN <<>>
    ELSE LET groups == Chunks(items, fan)
             k == Len(groups)
             sep(g) == IF g < Len(items) THEN items[g + 1].low ELSE <<>>
             pg(i) == [flags |-> IF k = 1 THEN {"Root"} ELSE {},
                       previous_page |-> IF i = 1 THEN 0 ELSE base + i - 1,
                       next_page |-> IF i = k THEN 0 ELSE base + i + 1,
                       nodes |-> [j \in 1..Len(groups[i]) |->
                                    [key |-> sep((i - 1) * fan + j),
                                     child |-> groups[i][j].pn,
                                     data |-> <<groups[i][j].pn, 0, 0, 0>>]]]
             up == [i \in 1..k |-> [pn |-> base + i, low |-> groups[i][1].low]]
         IN  [i \in 1..k |-> pg(i)] \o BranchLevels(up, fan, base + k)

\* The pages of one tree, numbered base + 1 .. base + n; the root is the last.
TreePages(entries, cap, fan, base) ==
    LET leaves == LeafLevel(entries, cap, base)
        items == [i \in 1..Len(leaves) |->
                    [pn |-> base + i,
                     low |-> IF leaves[i].nodes = <<>> THEN <<>>
                             ELSE leaves[i].nodes[1].key]]
        all == leaves \o BranchLevels(items, fan, base + Len(leaves))
    IN  [n \in (base + 1)..(base + Len(all)) |-> all[n - base]]

RootOf(pgs) == CHOOSE n \in DOMAIN pgs : \A m \in DOMAIN pgs : m <= n

Keys == UNION {[1..n -> ByteVals] : n \in KeyLens}

\* Key sequences in B+ tree order (equal keys allowed: non-unique indexes).
SortedKeySeqs ==
    {s \in UNION {[1..n -> Keys] : n \in 0..MaxKeys} :
        \A i \in 1..(Len(s) - 1) : BytesLeq(s[i], s[i + 1])}

KeyEntries(s) == [i \in 1..Len(s) |-> [key |-> s[i], data |-> <<i>>]]

LeafPageNums == {n \in DOMAIN pages : is_leaf(pages[n])}
StoredKeys == {pages[n].nodes[i].key : <<n, i>> \in
                 {<<n, i>> \in LeafPageNums \X (1..MaxKeys) : i <= node_count(pages[n])}}

(***************************************************************************)
(* The B+ tree cursor on its own: one BTree object over a generated tree.   *)
(***************************************************************************)
SearchKeys == Keys \cup {<<>>}

InitBTree ==
    /\ \E s \in SortedKeySeqs, cap \in 1..MaxCap :
          pages = TreePages(KeyEntries(s), cap, Fan, 0)
    /\ tbl = [root |-> RootOf(pages)]
    /\ bt = BTreeNew(tbl.root)
    /\ cur = Idle
    /\ mon = Idle
    /\ walk = Idle
    /\ res = [op |-> "init"]

DoSearch(key, exact) ==
    \E r \in {BTreeSearch(bt, key, exact)} :
        /\ bt' = r.bt
        /\ res' = [op |-> "search", key |-> key, exact |-> exact,
                   from |-> bt, out |-> r]
        /\ UNCHANGED <<pages, tbl, cur, mon, walk>>

DoNext ==
    \E r \in {BTreeNext(bt)} :
        /\ bt' = r.bt
        /\ res' = [op |-> "next", from |-> bt, out |-> r]
        /\ UNCHANGED <<pages, tbl, cur, mon, walk>>

DoPrev ==
    \E r \in {BTreePrev(bt)} :
        /\ bt' = r.bt
        /\ res' = [op |-> "prev", from |-> bt, out |-> r]
        /\ UNCHANGED <<pages, tbl, cur, mon, walk>>

\* btree.next_page()
DoNextPage ==
    \E r \in {BTreeNextPage(bt)} :
        /\ bt' = r.bt
        /\ res' = [op |-> "next_page", from |-> bt, out |-> r]
        /\ UNCHANGED <<pages, tbl, cur, mon, walk>>

\* btree.prev_page()
DoPrevPage ==
    \E r \in {BTreePrevPage(bt)} :
        /\ bt' = r.bt
        /\ res' = [op |-> "prev_page", from |-> bt, out |-> r]
        /\ UNCHANGED <<pages, tbl, cur, mon, walk>>

DoReset ==
    /\ bt' = BTreeReset(bt, tbl.root)
    /\ res' = [op |-> "reset", from |-> bt]
    /\ UNCHANGED <<pages, tbl, cur, mon, walk>>

DoNode ==
    /\ res' = [op |-> "node", from |-> bt, out |-> BTreeNode(bt)]
    /\ UNCHANGED <<pages, tbl, bt, cur, mon, walk>>

NextBTree ==
    \/ \E key \in SearchKeys, exact \in BOOLEAN : DoSearch(key, exact)
    \/ DoNext
    \/ DoPrev
    \/ DoNextPage
    \/ DoPrevPage
    \/ DoReset
    \/ DoNode

SpecBTree == InitBTree /\ [][NextBTree]_vars

(***************************************************************************)
(* Claims about BTree.search.                                               *)
(***************************************************************************)
AtRoot(b) == b = BTreeNew(tbl.root)
OnNode(b, node) == b.page = node.page /\ b.node_num = node.num

\* C1: on a well-formed tree, an exact search for a stored key, issued on a
\* cursor that is on the root (new or reset), returns a leaf node with that
\* key and leaves the cursor on that node.
C1_SearchFindsStoredKey ==
    (res.op = "search" /\ res.exact /\ AtRoot(res.from) /\ res.key \in StoredKeys)
        => /\ res.out.err = "ok"
           /\ res.out.ret.key = res.key
           /\ is_leaf(pages[res.out.ret.page])
           /\ OnNode(bt, res.out.ret)

\* C1 witness: such a search went down a branch root whose entry key equals
\* the searched key, and found the key on a leaf page.
C1_Witness ==
    /\ res.op = "search" /\ res.exact /\ AtRoot(res.from)
    /\ res.key \in StoredKeys
    /\ is_branch(pages[tbl.root])
    /\ \E i \in 1..node_count(pages[tbl.root]) : pages[tbl.root].nodes[i].key = res.key
    /\ res.out.err = "ok" /\ res.out.ret.key = res.key

\* What a search gives: the error or the node returned, and where the cursor is.
Outcome(r) ==
    [err |-> r.err, ret |-> IF r.err = "ok" THEN r.ret ELSE <<>>,
     page |-> r.bt.page, node_num |-> r.bt.node_num]

\* C2 as stated: whatever position the cursor has reached, a search gives what
\* it gives on a cursor at the root.
C2_SearchIgnoresPosition ==
    \A key \in SearchKeys, exact \in BOOLEAN :
        Outcome(BTreeSearch(bt, key, exact))
            = Outcome(BTreeSearch(BTreeNew(tbl.root), key, exact))

\* C2 amended: the outcome of a search depends on the tree, the key and the
\* page the cursor is on when the search starts, not on its node index or on
\* how it got there: it is the outcome of a search started on any other node
\* of that page, and, for a cursor on the root page, of a search on a new cursor.
C2_SearchDependsOnPage ==
    \A key \in SearchKeys, exact \in BOOLEAN :
        /\ \A n \in 0..(node_count(pages[bt.page]) - 1) :
              Outcome(BTreeSearch(bt, key, exact))
                  = Outcome(BTreeSearch([bt EXCEPT !.node_num = n], key, exact))
        /\ bt.page = tbl.root =>
              Outcome(BTreeSearch(bt, key, exact))
                  = Outcome(BTreeSearch(BTreeNew(tbl.root), key, exact))

\* C2 witness: a search issued from a leaf page other than the root, on a node
\* other than node 0, ended elsewhere than the same search from the root does.
C2_Witness ==
    /\ res.op = "search"
    /\ res.from.page # tbl.root /\ res.from.node_num > 0
    /\ Outcome(res.out)
         # Outcome(BTreeSearch(BTreeNew(tbl.root), res.key, res.exact))

(***************************************************************************)
(* index.py: keys of an index.  Column values are tagged with their Python  *)
(* type: an int, or a list (a multi-valued tagged column).                  *)
(***************************************************************************)
JET_cbKeyMost_OLD == 255
bPrefixNull == 0
bPrefixData == 127

PyInt(n) == [k |-> "int", v |-> n]
PyList(s) == [k |-> "list", v |-> s]
PyNone == [k |-> "none", v |-> 0]

\* Python == on the values of the model.
PyEq(a, b) == a.k = b.k /\ a.v = b.v

\* Column.type of the table's columns.
ColumnType(name) ==
    CASE name = "Id" -> "UnsignedByte"
      [] name = "Val" -> "UnsignedByte"
      [] name = "Flag" -> "Bit"
      [] OTHER -> "Long"

\* struct.pack(">I", (value ^ (1 << 31)) & 0xFFFFFFFF) of a 32-bit signed
\* value: big endian, the sign bit flipped.
PackLongKey(v) ==
    LET low == IF v >= 0 THEN v ELSE (v + 2147483647) + 1
        top == IF v >= 0 THEN 128 ELSE 0
    IN  <<top + (low \div 16777216), (low \div 65536) % 256,
          (low \div 256) % 256, low % 256>>

\* encode_key: the normalised key segment of one column value, for the
\* column types the tables of the model have (Bit, UnsignedByte, Long).
encode_key(index, column, value, max_size) ==
    IF value.k = "none" THEN <<bPrefixNull>>
    ELSE <<bPrefixData>> \o
         (IF ColumnType(column) = "Bit" THEN <<IF value.v # 0 THEN 255 ELSE 0>>
          ELSE IF ColumnType(column) = "UnsignedByte" THEN <<value.v>>
          ELSE PackLongKey(value.v))

RECURSIVE make_key_loop(_, _, _, _, _)
\* The for loop of Index.make_key over index.columns from position i.
make_key_loop(index, values, i, key_buf, key_remaining) ==
    IF i > Len(index.columns) THEN [buf |-> key_buf, remaining |-> key_remaining]
    ELSE IF index.columns[i] \notin DOMAIN values
    THEN [buf |-> key_buf, remaining |-> key_remaining]
    ELSE LET key_part == encode_key(index, index.columns[i],
                                    values[index.columns[i]], index.var_seg_mac)
             rem == key_remaining - Len(key_part)
         IN  IF rem <= 0 THEN [buf |-> key_buf \o key_part, remaining |-> rem]
             ELSE make_key_loop(index, values, i + 1, key_buf \o key_part, rem)

\* The slip of returning the joined segments without cutting them.
make_key_uncut(index, values) ==
    make_key_loop(index, values, 1, <<>>, index.key_most).buf

\* Index.make_key(values).
make_key(index, values) ==
    LET r == make_key_loop(index, values, 1, <<>>, index.key_most)
    IN  IF r.remaining < 0 THEN SubSeq(r.buf, 1, index.key_most) ELSE r.buf

(***************************************************************************)
(* cursor.py: the Cursor over an index.  _primary walks the index's own     *)
(* tree; for a secondary index _secondary looks the record up in the        *)
(* table's tree.  Operations give [err, cur, ret].                          *)
(***************************************************************************)
NoObject == "None"

\* Record(table, node): the record wraps the node it was made from.
Record(node) == [table |-> tbl.name, node |-> node]

\* Cursor.__init__.
CursorNew(index) ==
    [index |-> index,
     primary |-> BTreeNew(index.root),
     secondary |-> IF index.is_primary THEN NoObject ELSE BTreeNew(tbl.root)]

\* if self._secondary: the table's BTree is there for a secondary index.
HasSecondary(c) == ~c.index.is_primary

\* Cursor.reset().
CursorReset(c) ==
    [c EXCEPT !.primary = BTreeReset(c.primary, c.index.root),
              !.secondary = IF HasSecondary(c)
                            THEN BTreeReset(c.secondary, tbl.root) ELSE NoObject]

\* The slip of resolving the record from where the table's BTree was left,
\* without the reset.
CursorNodeNoReset(c) ==
    LET found(r) ==
            IF r.err # "ok" THEN [err |-> r.err, cur |-> [c EXCEPT !.secondary = r.bt]]
            ELSE [err |-> "ok", cur |-> [c EXCEPT !.secondary = r.bt], ret |-> r.ret]
        resolve(n) ==
            IF n.err # "ok" THEN [err |-> n.err, cur |-> c]
            ELSE IF ~HasSecondary(c) THEN [err |-> "ok", cur |-> c, ret |-> n.ret]
            ELSE found(BTreeSearch(c.secondary, n.ret.data, TRUE))
    IN  resolve(BTreeNode(c.primary))

\* Cursor._node(): the node of the record, through the table's tree if needed.
CursorNode(c) ==
    LET found(r) ==
            IF r.err # "ok" THEN [err |-> r.err, cur |-> [c EXCEPT !.secondary = r.bt]]
            ELSE [err |-> "ok", cur |-> [c EXCEPT !.secondary = r.bt], ret |-> r.ret]
        resolve(n) ==
            IF n.err # "ok" THEN [err |-> n.err, cur |-> c]
            ELSE IF ~HasSecondary(c) THEN [err |-> "ok", cur |-> c, ret |-> n.ret]
            ELSE found(BTreeSearch(BTreeReset(c.secondary, tbl.root), n.ret.data, TRUE))
    IN  resolve(BTreeNode(c.primary))

\* Cursor._record().
CursorRecord(c) ==
    LET wrap(n) == IF n.err # "ok" THEN n
                   ELSE [err |-> "ok", cur |-> n.cur, ret |-> Record(n.ret)]
    IN  wrap(CursorNode(c))

\* Cursor.search_key(key, exact).
CursorSearchKey(c, key, exact) ==
    LET after(r) ==
            IF r.err # "ok" THEN [err |-> r.err, cur |-> [c EXCEPT !.primary = r.bt]]
            ELSE CursorRecord([c EXCEPT !.primary = r.bt])
    IN  after(BTreeSearch(c.primary, key, exact))

\* Cursor.search(**kwargs).
CursorSearch(c, kwargs) == CursorSearchKey(c, make_key(c.index, kwargs), TRUE)

\* Cursor.next(): IndexError when there is no next page.
CursorNext(c) ==
    LET after(r) ==
            IF r.err = "NoNeighbourPageError"
            THEN [err |-> "IndexError", cur |-> [c EXCEPT !.primary = r.bt]]
            ELSE IF r.err # "ok" THEN [err |-> r.err, cur |-> [c EXCEPT !.primary = r.bt]]
            ELSE CursorRecord([c EXCEPT !.primary = r.bt])
    IN  after(BTreeNext(c.primary))

\* Cursor.prev(): IndexError when there is no previous page.
CursorPrev(c) ==
    LET after(r) ==
            IF r.err = "NoNeighbourPageError"
            THEN [err |-> "IndexError", cur |-> [c EXCEPT !.primary = r.bt]]
            ELSE IF r.err # "ok" THEN [err |-> r.err, cur |-> [c EXCEPT !.primary = r.bt]]
            ELSE CursorRecord([c EXCEPT !.primary = r.bt])
    IN  after(BTreePrev(c.primary))

\* A generator of the cursor runs from one yield to the next; the cursor is
\* in the open in between.  A step gives ev: "yield" with the record, "stop"
\* (StopIteration: the body returned) or "raise" with the exception, and the
\* cursor after it.
\* Cursor.__iter__ from the top of its loop: yield self._record().
IterYield(c) ==
    LET rec == CursorRecord(c)
    IN  IF rec.err # "ok" THEN [ev |-> "raise", err |-> rec.err, cur |-> rec.cur]
        ELSE [ev |-> "yield", err |-> "ok", cur |-> rec.cur, ret |-> rec.ret]

\* Cursor.__iter__ resumed after its yield: self._primary.next() from where
\* the cursor now is, then the next yield.
IterResume(c) ==
    LET nx == BTreeNext(c.primary)
    IN  IF nx.err = "NoNeighbourPageError"
        THEN [ev |-> "stop", err |-> "ok", cur |-> [c EXCEPT !.primary = nx.bt]]
        ELSE IF nx.err # "ok"
        THEN [ev |-> "raise", err |-> nx.err, cur |-> [c EXCEPT !.primary = nx.bt]]
        ELSE IterYield([c EXCEPT !.primary = nx.bt])

RECURSIVE IterRun(_, _)
\* The steps of list(cursor) after the step that gave s.
IterRun(s, yielded) ==
    IF s.ev = "yield" THEN IterRun(IterResume(s.cur), Append(yielded, s.ret))
    ELSE [err |-> s.err, cur |-> s.cur, ret |-> yielded]

\* Cursor.__iter__ run to its end with nothing in between, as list(cursor)
\* runs it: the records yielded, and the exception that ended the iteration
\* if one did.
CursorIterate(c, yielded) == IterRun(IterYield(c), yielded)

\* Record.get(attr): the value of a column of the record.
RecordGet(rec, attr) == rec.node.data[attr]

\* The test of find_all on one non-indexed column: value is the record's, v
\* the queried one.
FilterMatch(value, v) ==
    IF value.k = "list"
    THEN IF v.k = "list" THEN value.v = v.v
         ELSE v.k = "int" /\ \E i \in DOMAIN value.v : value.v[i] = v.v
    ELSE PyEq(value, v)

\* The slip of not looking back from the entry the search landed on.
find_all_no_rewind(b, current_key) == [err |-> "ok", bt |-> b]

RECURSIVE find_all_rewind(_, _)
\* The first loop of find_all: back over the entries that have current_key.
find_all_rewind(b, current_key) ==
    LET back(pv) ==
            IF pv.err = "NoNeighbourPageError" THEN [err |-> "ok", bt |-> pv.bt]
            ELSE IF pv.err # "ok" THEN [err |-> pv.err, bt |-> pv.bt]
            ELSE find_all_rewind(pv.bt, current_key)
        forth(x) == [err |-> x.err, bt |-> x.bt]
        look(n) ==
            IF n.err # "ok" THEN [err |-> n.err, bt |-> b]
            ELSE IF current_key # n.ret.key THEN forth(BTreeNext(b))
            ELSE back(BTreePrev(b))
    IN  look(BTreeNode(b))

RECURSIVE FindAllScan(_, _, _)
RECURSIVE FindAllResume(_, _, _)
\* The second loop of find_all from its top to the next yield.
FindAllScan(c, current_key, other_columns) ==
    LET got(rec) ==
            IF rec.err # "ok" THEN [ev |-> "raise", err |-> rec.err, cur |-> rec.cur]
            ELSE IF \A k \in DOMAIN other_columns :
                        FilterMatch(RecordGet(rec.ret, k), other_columns[k])
            THEN [ev |-> "yield", err |-> "ok", cur |-> rec.cur, ret |-> rec.ret]
            ELSE FindAllResume(rec.cur, current_key, other_columns)
        look(n) ==
            IF n.err # "ok" THEN [ev |-> "raise", err |-> n.err, cur |-> c]
            ELSE IF current_key # n.ret.key THEN [ev |-> "stop", err |-> "ok", cur |-> c]
            ELSE got(CursorRecord(c))
    IN  look(BTreeNode(c.primary))

\* find_all resumed after its yield, or gone on after a record that did not
\* pass: self._primary.next() from where the cursor now is.
FindAllResume(c, current_key, other_columns) ==
    LET nx == BTreeNext(c.primary)
    IN  IF nx.err = "NoNeighbourPageError"
        THEN [ev |-> "stop", err |-> "ok", cur |-> [c EXCEPT !.primary = nx.bt]]
        ELSE IF nx.err # "ok"
        THEN [ev |-> "raise", err |-> nx.err, cur |-> [c EXCEPT !.primary = nx.bt]]
        ELSE FindAllScan([c EXCEPT !.primary = nx.bt], current_key, other_columns)

RECURSIVE FindAllRun(_, _, _, _)
\* The steps of list(cursor.find_all(...)) after the step that gave s.
FindAllRun(s, current_key, other_columns, yielded) ==
    IF s.ev = "yield"
    THEN FindAllRun(FindAllResume(s.cur, current_key, other_columns),
                    current_key, other_columns, Append(yielded, s.ret))
    ELSE [err |-> s.err, cur |-> s.cur, ret |-> yielded]

\* The second loop of find_all run to its end: forward while the key is
\* current_key.
find_all_forward(c, current_key, other_columns, yielded) ==
    FindAllRun(FindAllScan(c, current_key, other_columns),
               current_key, other_columns, yielded)

IndexColumnNames(index) == {index.columns[i] : i \in DOMAIN index.columns}

\* find_all(**kwargs) from its first statement to the top of its second
\* loop: the search, current_key, the way back over the equal keys.
FindAllOpen(c, kwargs) ==
    LET other_columns == [k \in DOMAIN kwargs \ IndexColumnNames(c.index) |-> kwargs[k]]
        rewound(s, current_key, rw) ==
            IF rw.err # "ok"
            THEN [err |-> rw.err, cur |-> [s.cur EXCEPT !.primary = rw.bt]]
            ELSE [err |-> "ok", cur |-> [s.cur EXCEPT !.primary = rw.bt],
                  current_key |-> current_key, other_columns |-> other_columns]
        at(s, current_key) ==
            rewound(s, current_key, find_all_rewind(s.cur.primary, current_key))
        found(s) ==
            IF s.err # "ok" THEN [err |-> s.err, cur |-> s.cur]
            ELSE at(s, BTreeNode(s.cur.primary).ret.key)
    IN  IF ~(IndexColumnNames(c.index) \subseteq DOMAIN kwargs)
        THEN [err |-> "KeyError", cur |-> c]
        ELSE found(CursorSearch(c, [k \in IndexColumnNames(c.index) |-> kwargs[k]]))

\* The first next() of the generator find_all(**kwargs) returns: the body
\* from its first statement to its first yield.
FindAllFirst(c, kwargs) ==
    LET opened(o) ==
            IF o.err # "ok" THEN [ev |-> "raise", err |-> o.err, cur |-> o.cur]
            ELSE [current_key |-> o.current_key, other_columns |-> o.other_columns]
                 @@ FindAllScan(o.cur, o.current_key, o.other_columns)
    IN  opened(FindAllOpen(c, kwargs))

\* Cursor.find_all(**kwargs) run to its end with nothing in between, as
\* list(cursor.find_all(...)) runs it: the records yielded, and the
\* exception that ended it if one did.
CursorFindAll(c, kwargs) ==
    LET opened(o) ==
            IF o.err # "ok" THEN [err |-> o.err, cur |-> o.cur, ret |-> <<>>]
            ELSE find_all_forward(o.cur, o.current_key, o.other_columns, <<>>)
    IN  opened(FindAllOpen(c, kwargs))

\* Cursor.find(**kwargs): next(self.find_all(**kwargs), None).  The
\* generator is dropped at its first yield.
CursorFind(c, kwargs) ==
    LET first(s) ==
            IF s.ev = "raise" THEN [err |-> s.err, cur |-> s.cur]
            ELSE IF s.ev = "yield" THEN [err |-> "ok", cur |-> s.cur, ret |-> s.ret]
            ELSE [err |-> "ok", cur |-> s.cur, ret |-> PyNone]
    IN  first(FindAllFirst(c, kwargs))

(***************************************************************************)
(* table.py: the table's cursor and Table.search.                           *)
(***************************************************************************)
\* Table.primary_index: the first index flagged primary, if any.
PrimaryIndexes == {i \in DOMAIN tbl.indexes : tbl.indexes[i].is_primary}
primary_index ==
    tbl.indexes[CHOOSE i \in PrimaryIndexes : \A j \in PrimaryIndexes : i <= j]

\* Index.cursor(): a new Cursor over the index.
IndexCursor(index) == CursorNew(index)

\* Table.search(**kwargs): self.cursor().search(**kwargs).
TableSearch(kwargs) ==
    IF PrimaryIndexes = {} THEN [err |-> "AttributeError"]
    ELSE CursorSearch(IndexCursor(primary_index), kwargs)

(***************************************************************************)
(* Generated tables: table T with columns Id (the primary index IxId), Val  *)
(* (the non-unique secondary index IxVal) and the multi-valued Tags.  The   *)
(* table's tree holds the records under their primary key; the secondary    *)
(* index's tree holds, under the key of Val, the primary key of the record. *)
(***************************************************************************)
MaxRows == 3                        \* records of a generated table

ValVals == {1, 3}                   \* values of column Val
QueryInts == {1, 2, 3}              \* integers searched for
QueryTags == {PyInt(2), PyList(<<1, 2>>)}   \* values of Tags searched for

\* Column Tags of the i-th record: multi-valued on every other record.
TagsOf(i) == IF i % 2 = 1 THEN PyList(<<1, 2>>) ELSE PyInt(2)

IndexDef(name, primary, columns) ==
    [name |-> name, is_primary |-> primary, columns |-> columns,
     key_most |-> JET_cbKeyMost_OLD, var_seg_mac |-> JET_cbKeyMost_OLD]
IxId == IndexDef("IxId", TRUE, <<"Id">>)
IxVal == IndexDef("IxVal", FALSE, <<"Val">>)

RowSeqs ==
    UNION {[1..n -> [Val : {PyInt(v) : v \in ValVals}]] : n \in 0..MaxRows}
RowOf(rs, i) == [Id |-> PyInt(i), Val |-> rs[i].Val, Tags |-> TagsOf(i)]

\* Index.key_from_record: the key of a record in an index.
key_from_record(index, row) ==
    make_key(index, [c \in IndexColumnNames(index) |-> row[c]])

RECURSIVE SortByKey(_)
\* Entries in key order; entries with equal keys keep their order.
SortByKey(s) ==
    IF s = <<>> THEN <<>>
    ELSE LET rest == SortByKey(Tail(s))
             k == Cardinality({i \in 1..Len(rest) : BytesLess(rest[i].key, Head(s).key)})
         IN  SubSeq(rest, 1, k) \o <<Head(s)>> \o SubSeq(rest, k + 1, Len(rest))

TableEntries(rs) ==
    [i \in 1..Len(rs) |-> [key |-> key_from_record(IxId, RowOf(rs, i)), data |-> RowOf(rs, i)]]
IndexEntries(rs) ==
    SortByKey([i \in 1..Len(rs) |->
                 [key |-> key_from_record(IxVal, RowOf(rs, i)),
                  data |-> key_from_record(IxId, RowOf(rs, i))]])

Only(k, v) == [x \in {k} |-> v]
SearchArgs == {Only(c, PyInt(v)) : c \in {"Id", "Val"}, v \in QueryInts}
FindArgs ==
    SearchArgs
    \cup {Only(c, PyInt(v)) @@ Only("Tags", t) : c \in {"Id", "Val"}, v \in QueryInts, t \in QueryTags}

\* walk is the generator of the cursor that is suspended at its yield, if
\* one is: of __iter__, or of find_all with its locals.
NoGenerator == [kind |-> "none"]
Suspended(s, kind) ==
    IF s.ev # "yield" THEN NoGenerator
    ELSE IF kind = "iter" THEN [kind |-> "iter"]
    ELSE [kind |-> "find_all", current_key |-> s.current_key,
          other_columns |-> s.other_columns]

InitCursor ==
    /\ \E rs \in RowSeqs, cap \in 1..MaxCap :
          LET tp == TreePages(TableEntries(rs), cap, Fan, 0)
              ip == TreePages(IndexEntries(rs), cap, Fan, RootOf(tp))
          IN  /\ pages = tp @@ ip
              /\ tbl = [name |-> "T", root |-> RootOf(tp),
                        rows |-> [i \in 1..Len(rs) |-> RowOf(rs, i)],
                        indexes |-> <<[root |-> RootOf(tp)] @@ IxId,
                                      [root |-> RootOf(ip)] @@ IxVal>>]
    /\ \E i \in DOMAIN tbl.indexes : cur = IndexCursor(tbl.indexes[i])
    /\ bt = Idle
    /\ mon = [phase |-> 0]
    /\ walk = Idle
    /\ res = [op |-> "init"]

Fresh(c) == c = CursorNew(c.index)
Positioned(r) == [phase |-> 1, r |-> r, last |-> r]

DoCursorSearch(kwargs) ==
    \E r \in {CursorSearch(cur, kwargs)} :
        /\ cur' = r.cur
        /\ res' = [op |-> "search", args |-> kwargs, fresh |-> Fresh(cur), out |-> r]
        /\ mon' = IF r.err = "ok" THEN Positioned(r) ELSE [phase |-> 0]
        /\ UNCHANGED <<pages, tbl, bt, walk>>

DoCursorNext ==
    \E r \in {CursorNext(cur)} :
        /\ cur' = r.cur
        /\ res' = [op |-> "next", out |-> r]
        /\ mon' = IF mon.phase = 1
                  THEN [mon EXCEPT !.phase = IF r.err = "ok" THEN 2 ELSE 9, !.last = r]
                  ELSE [phase |-> 0]
        /\ UNCHANGED <<pages, tbl, bt, walk>>

DoCursorPrev ==
    \E r \in {CursorPrev(cur)} :
        /\ cur' = r.cur
        /\ res' = [op |-> "prev", out |-> r]
        /\ mon' = IF mon.phase = 2
                  THEN [mon EXCEPT !.phase = 3, !.last = r] ELSE [phase |-> 0]
        /\ UNCHANGED <<pages, tbl, bt, walk>>

DoCursorRecord ==
    \E r \in {CursorRecord(cur)} :
        /\ cur' = r.cur
        /\ res' = [op |-> "record", from |-> cur.primary, out |-> r]
        /\ UNCHANGED <<pages, tbl, bt, mon, walk>>

DoCursorReset ==
    /\ cur' = CursorReset(cur)
    /\ res' = [op |-> "reset"]
    /\ mon' = [phase |-> 0]
    /\ UNCHANGED <<pages, tbl, bt, walk>>

DoNewCursor(i) ==
    /\ cur' = IndexCursor(tbl.indexes[i])
    /\ res' = [op |-> "cursor"]
    /\ mon' = [phase |-> 0]
    /\ UNCHANGED <<pages, tbl, bt, walk>>

\* records = list(cursor)
DoCursorIterate ==
    \E r \in {CursorIterate(cur, <<>>)} :
        /\ cur' = r.cur
        /\ res' = [op |-> "iter", fresh |-> Fresh(cur), out |-> r]
        /\ mon' = [phase |-> 0]
        /\ UNCHANGED <<pages, tbl, bt, walk>>

\* records = list(cursor.find_all(**kwargs))
DoCursorFindAll(kwargs) ==
    \E r \in {CursorFindAll(cur, kwargs)} :
        /\ cur' = r.cur
        /\ res' = [op |-> "find_all", args |-> kwargs, fresh |-> Fresh(cur), out |-> r]
        /\ mon' = [phase |-> 0]
        /\ UNCHANGED <<pages, tbl, bt, walk>>

DoTableSearch(kwargs) ==
    /\ res' = [op |-> "Table.search", args |-> kwargs, out |-> TableSearch(kwargs)]
    /\ mon' = [phase |-> 0]
    /\ UNCHANGED <<pages, tbl, bt, cur, walk>>

NextCursor ==
    \/ \E kwargs \in SearchArgs : DoCursorSearch(kwargs)
    \/ DoCursorNext
    \/ DoCursorPrev
    \/ DoCursorRecord
    \/ DoCursorReset
    \/ \E i \in DOMAIN tbl.indexes : DoNewCursor(i)
    \/ DoCursorIterate
    \/ \E kwargs \in FindArgs : DoCursorFindAll(kwargs)
    \/ \E kwargs \in SearchArgs : DoTableSearch(kwargs)

SpecCursor == InitCursor /\ [][NextCursor]_vars

(***************************************************************************)
(* The generators of the cursor, __iter__ and find_all, and find: __iter__  *)
(* run to its end by list(), and both taken one next() at a time with the   *)
(* cursor searched, moved or reset between two of them.                     *)
(***************************************************************************)
InitGen ==
    /\ \E rs \in RowSeqs, cap \in 1..MaxCap :
          LET tp == TreePages(TableEntries(rs), cap, Fan, 0)
              ip == TreePages(IndexEntries(rs), cap, Fan, RootOf(tp))
          IN  /\ pages = tp @@ ip
              /\ tbl = [name |-> "T", root |-> RootOf(tp),
                        rows |-> [i \in 1..Len(rs) |-> RowOf(rs, i)],
                        indexes |-> <<[root |-> RootOf(tp)] @@ IxId,
                                      [root |-> RootOf(ip)] @@ IxVal>>]
    /\ \E i \in DOMAIN tbl.indexes : cur = IndexCursor(tbl.indexes[i])
    /\ bt = Idle
    /\ mon = [phase |-> 0]
    /\ walk = NoGenerator
    /\ res = [op |-> "init"]

\* it = iter(cursor); next(it): making the generator runs nothing, its body
\* starts with the first next(it).
DoIterFirst ==
    \E s \in {IterYield(cur)} :
        /\ cur' = s.cur
        /\ walk' = Suspended(s, "iter")
        /\ res' = [op |-> "iter.first",
                   out |-> [k \in (DOMAIN s) \ {"cur"} |-> s[k]]]
        /\ UNCHANGED <<pages, tbl, bt, mon>>

\* g = cursor.find_all(**kwargs); next(g)
DoFindAllFirst(kwargs) ==
    \E s \in {FindAllFirst(cur, kwargs)} :
        /\ cur' = s.cur
        /\ walk' = Suspended(s, "find_all")
        /\ res' = [op |-> "find_all.first",
                   out |-> [k \in {"ev", "err", "ret"} \cap DOMAIN s |-> s[k]]]
        /\ UNCHANGED <<pages, tbl, bt, mon>>

\* next(it) or next(g) on the suspended generator: it goes on from where
\* the cursor is now.
DoGeneratorNext ==
    /\ walk.kind # "none"
    /\ \E s \in {IF walk.kind = "iter" THEN IterResume(cur)
                 ELSE FindAllResume(cur, walk.current_key, walk.other_columns)} :
          /\ cur' = s.cur
          /\ walk' = IF s.ev = "yield" THEN walk ELSE NoGenerator
          /\ res' = [op |-> "generator.next", kind |-> walk.kind,
                     out |-> [k \in (DOMAIN s) \ {"cur"} |-> s[k]]]
      /\ UNCHANGED <<pages, tbl, bt, mon>>

\* cursor.find(**kwargs)
DoCursorFind(kwargs) ==
    \E r \in {CursorFind(cur, kwargs)} :
        /\ cur' = r.cur
        /\ res' = [op |-> "find",
                   out |-> [k \in (DOMAIN r) \ {"cur"} |-> r[k]]]
        /\ UNCHANGED <<pages, tbl, bt, mon, walk>>

\* The calls on the cursor between two steps of a generator.
\* cursor.search(**kwargs)
DoSearchBetween(kwargs) ==
    \E r \in {CursorSearch(cur, kwargs)} :
        /\ cur' = r.cur
        /\ res' = [op |-> "search", err |-> r.err]
        /\ UNCHANGED <<pages, tbl, bt, mon, walk>>

\* cursor.next()
DoNextBetween ==
    \E r \in {CursorNext(cur)} :
        /\ cur' = r.cur
        /\ res' = [op |-> "next", err |-> r.err]
        /\ UNCHANGED <<pages, tbl, bt, mon, walk>>

\* cursor.reset()
DoResetBetween ==
    /\ cur' = CursorReset(cur)
    /\ res' = [op |-> "reset"]
    /\ UNCHANGED <<pages, tbl, bt, mon, walk>>

NextGen ==
    \/ DoCursorIterate
    \/ DoIterFirst
    \/ \E kwargs \in FindArgs : DoFindAllFirst(kwargs)
    \/ DoGeneratorNext
    \/ \E kwargs \in FindArgs : DoCursorFind(kwargs)
    \/ \E kwargs \in SearchArgs : DoSearchBetween(kwargs)
    \/ DoNextBetween
    \/ DoResetBetween

SpecGen == InitGen /\ [][NextGen]_vars

(***************************************************************************)
(* Claims about the Cursor.                                                 *)
(***************************************************************************)
\* The records of the table in the order of an index: by key, and by primary
\* key among equal keys.
IndexOrder(index) ==
    LET e == SortByKey([i \in DOMAIN tbl.rows |->
                          [key |-> key_from_record(index, tbl.rows[i]), data |-> tbl.rows[i]]])
    IN  [i \in DOMAIN e |-> e[i].data]

\* The column values of yielded records, given that they are leaf nodes of
\* the table's tree.
OnLeaves(recs) == \A i \in DOMAIN recs : is_leaf(pages[recs[i].node.page])
RowsOf(recs) == [i \in DOMAIN recs |-> recs[i].node.data]

\* C3 as stated: iterating a newly created cursor yields every record of the
\* index once, in key order, and then stops, whatever the height of the tree.
C3_IterationYieldsAllRecords ==
    (res.op = "iter" /\ res.fresh)
        => /\ res.out.err = "ok"
           /\ OnLeaves(res.out.ret)
           /\ RowsOf(res.out.ret) = IndexOrder(cur.index)

\* C3 witness: the iteration of a new cursor over an index whose root is a
\* branch page ended without an exception, having yielded the entries of the
\* root page as records.
C3_Witness ==
    /\ res.op = "iter" /\ res.fresh /\ res.out.err = "ok"
    /\ cur.index.is_primary
    /\ is_branch(pages[cur.index.root])
    /\ Len(res.out.ret) = node_count(pages[cur.index.root])
    /\ \A i \in DOMAIN res.out.ret : res.out.ret[i].node.page = cur.index.root

\* The position of the record a result returned, in the order of the index.
PosIn(index, r) == CHOOSE i \in DOMAIN tbl.rows : IndexOrder(index)[i] = r.ret.node.data
KeyIn(index, r) == key_from_record(index, r.ret.node.data)

\* C4, the calls after the first: prev() right after a successful next()
\* returns r again and puts the cursor back where the search left it, and
\* record() returns the record the cursor is on without moving the cursor.
C4_PrevAndRecord ==
    /\ (res.op = "prev" /\ mon.phase = 3)
          => /\ res.out.err = "ok"
             /\ res.out.ret = mon.r.ret
             /\ cur.primary = mon.r.cur.primary
    /\ (res.op = "record" /\ mon.phase \in {1, 2, 3})
          => /\ res.out.err = "ok"
             /\ res.out.ret = mon.last.ret
             /\ cur.primary = res.from

\* C4 as stated: next() after a successful search returns the record with the
\* next greater key.
C4_NextReturnsGreaterKey ==
    /\ (res.op = "next" /\ mon.phase = 2)
          => /\ BytesLess(KeyIn(cur.index, mon.r), KeyIn(cur.index, res.out))
             /\ \A i \in DOMAIN tbl.rows :
                   LET k == key_from_record(cur.index, tbl.rows[i])
                   IN  ~(BytesLess(KeyIn(cur.index, mon.r), k)
                         /\ BytesLess(k, KeyIn(cur.index, res.out)))
    /\ C4_PrevAndRecord

\* C4 amended: next() after a successful search on r returns the record that
\* follows r in the order of the index, whose key is greater than or equal to
\* r's (equal in a non-unique index), and raises IndexError when r is the
\* last; prev() and record() as stated.
C4_NextPrevRecord ==
    /\ (res.op = "next" /\ mon.phase = 2)
          => /\ PosIn(cur.index, mon.r) < Len(tbl.rows)
             /\ res.out.ret.node.data = IndexOrder(cur.index)[PosIn(cur.index, mon.r) + 1]
             /\ BytesLeq(KeyIn(cur.index, mon.r), KeyIn(cur.index, res.out))
    /\ (res.op = "next" /\ mon.phase = 9)
          => /\ res.out.err = "IndexError"
             /\ PosIn(cur.index, mon.r) = Len(tbl.rows)
    /\ C4_PrevAndRecord

\* C4 witness: search, next across a leaf-page boundary onto a record with the
\* same key, prev, then record.
C4_Witness ==
    /\ res.op = "record" /\ mon.phase = 3
    /\ ~cur.index.is_primary
    /\ mon.r.cur.primary.node_num = node_count(pages[mon.r.cur.primary.page]) - 1
    /\ res.out.err = "ok" /\ res.out.ret = mon.r.ret
    /\ PosIn(cur.index, mon.r) < Len(tbl.rows)
    /\ KeyIn(cur.index, mon.r)
         = key_from_record(cur.index, IndexOrder(cur.index)[PosIn(cur.index, mon.r) + 1])

\* A record satisfies a predicate on a non-indexed column: membership when
\* its value is a list and the queried value is not, equality otherwise.
Satisfies(value, v) ==
    IF value.k = "list" /\ v.k # "list"
    THEN \E i \in DOMAIN value.v : PyEq(PyInt(value.v[i]), v)
    ELSE PyEq(value, v)

FindAllExpected(index, kwargs) ==
    SelectSeq(IndexOrder(index),
              LAMBDA row :
                  /\ \A c \in IndexColumnNames(index) : key_from_record(index, row)
                        = make_key(index, [k \in IndexColumnNames(index) |-> kwargs[k]])
                  /\ \A k \in DOMAIN kwargs \ IndexColumnNames(index) :
                        Satisfies(row[k], kwargs[k]))

\* C5: find_all on a new or reset cursor, given values for the indexed
\* columns, yields exactly the records whose index key is the key of those
\* values and that satisfy the predicates on the other columns, once each, in
\* the order of the index; it ends with an exception, having yielded nothing,
\* exactly when no record has that key: IndexError when the index is empty,
\* KeyNotFoundError otherwise.
C5_FindAllYieldsMatches ==
    (res.op = "find_all" /\ res.fresh /\ IndexColumnNames(cur.index) \subseteq DOMAIN res.args)
        => /\ OnLeaves(res.out.ret)
           /\ RowsOf(res.out.ret) = FindAllExpected(cur.index, res.args)
           /\ res.out.err =
                IF tbl.rows = <<>> THEN "IndexError"
                ELSE IF FindAllExpected(cur.index,
                            [k \in IndexColumnNames(cur.index) |-> res.args[k]]) = <<>>
                THEN "KeyNotFoundError"
                ELSE "ok"

\* C5 witness: on an index tree with branch pages, three records have the
\* key searched for, and find_all yielded the two of them that satisfy the
\* predicate on Tags.
C5_Witness ==
    /\ res.op = "find_all" /\ res.fresh /\ res.out.err = "ok"
    /\ ~cur.index.is_primary
    /\ "Tags" \in DOMAIN res.args
    /\ Len(res.out.ret) = 2
    /\ Len(FindAllExpected(cur.index, [k \in IndexColumnNames(cur.index) |-> res.args[k]])) = 3
    /\ is_branch(pages[cur.index.root])

\* C6 as stated: Table.search returns the first record that has the values
\* searched for, and None, without an error, when no record has them.
ReturnsNone(r) == r.err = "ok" /\ "ret" \notin DOMAIN r
C6_TableSearchFirstOrNone ==
    res.op = "Table.search"
        => LET M == {i \in DOMAIN tbl.rows :
                        \A k \in DOMAIN res.args : PyEq(tbl.rows[i][k], res.args[k])}
           IN  IF M = {} THEN ReturnsNone(res.out)
               ELSE /\ res.out.err = "ok"
                    /\ res.out.ret.node.data = tbl.rows[CHOOSE i \in M : \A j \in M : i <= j]

\* C6 witness: a table with records was searched for a primary key none of
\* them has, and the search raised KeyNotFoundError.
C6_Witness ==
    /\ res.op = "Table.search" /\ DOMAIN res.args = {"Id"}
    /\ tbl.rows # <<>>
    /\ \A i \in DOMAIN tbl.rows : ~PyEq(tbl.rows[i].Id, res.args.Id)
    /\ res.out.err = "KeyNotFoundError"

(***************************************************************************)
(* page.py: Page.iter_leaf_nodes as the nest of generators it is.  A frame  *)
(* is one running call: its page, the number of the node its for loop is    *)
(* at, whether it is in the loop over the page after the last leaf, and the *)
(* page of the leaf last bound to its variable leaf (0: leaf is None).      *)
(* The pages are those of a generated tree whose leaf pages a dirty         *)
(* database may have left with any sibling link, and one of them empty.     *)
(***************************************************************************)
RecursionLimit == 6     \* frames Python nests before RecursionError
MaxYields == 3          \* yields of one leaf node that are counted

Frame(pn) == [page |-> pn, i |-> 0, tail |-> FALSE, leaf |-> 0]

LeafNodeIds ==
    {<<n, i>> \in (DOMAIN pages) \X (0..(MaxKeys - 1)) :
        is_leaf(pages[n]) /\ i < node_count(pages[n])}

LeafPagesOf(t) == {n \in DOMAIN t : is_leaf(t[n])}

\* A generated tree with the sibling links of its leaf pages replaced by
\* link, and the nodes of the leaf page empty (if any) gone.
Dirty(t, link, empty) ==
    [n \in DOMAIN t |->
        IF is_leaf(t[n])
        THEN [t[n] EXCEPT !.next_page = link[n],
                          !.nodes = IF n = empty THEN <<>> ELSE @]
        ELSE t[n]]

InitLeaf ==
    /\ \E n \in 0..MaxKeys, cap \in 1..MaxCap :
          LET t == TreePages(KeyEntries([i \in 1..n |-> <<i>>]), cap, Fan, 0)
          IN  \E link \in [LeafPagesOf(t) -> {0} \cup DOMAIN t],
                 empty \in {0} \cup LeafPagesOf(t) :
                    pages = Dirty(t, link, empty)
    /\ tbl = [root |-> RootOf(pages)]
    /\ bt = Idle
    /\ cur = Idle
    /\ mon = Idle
    /\ walk = [stack |-> <<Frame(tbl.root)>>, status |-> "running",
               yields |-> [id \in LeafNodeIds |-> 0]]
    /\ res = [op |-> "iter_leaf_nodes"]

Top == walk.stack[Len(walk.stack)]
Pop == SubSeq(walk.stack, 1, Len(walk.stack) - 1)

\* child.iter_leaf_nodes() or esedb.page(next_page).iter_leaf_nodes() is
\* entered: one more generator frame, or RecursionError.
Enter(stack, pn) ==
    IF Len(stack) >= RecursionLimit
    THEN [walk EXCEPT !.status = "RecursionError"]
    ELSE [walk EXCEPT !.stack = Append(stack, Frame(pn))]

\* if self.is_leaf: yield node.  The node goes up through every enclosing
\* for loop, each of which binds it to its variable leaf.
YieldNode ==
    /\ walk.status = "running" /\ walk.stack # <<>>
    /\ is_leaf(pages[Top.page]) /\ Top.i < node_count(pages[Top.page])
    /\ walk' = [walk EXCEPT
                  !.stack = [k \in DOMAIN walk.stack |->
                               IF k = Len(walk.stack)
                               THEN [walk.stack[k] EXCEPT !.i = @ + 1]
                               ELSE [walk.stack[k] EXCEPT !.leaf = Top.page]],
                  !.yields[<<Top.page, Top.i>>] = Min(@ + 1, MaxYields)]
    /\ UNCHANGED <<pages, tbl, bt, cur, mon, res>>

\* else: child = esedb.page(node.child); for leaf in child.iter_leaf_nodes().
Descend ==
    /\ walk.status = "running" /\ walk.stack # <<>>
    /\ is_branch(pages[Top.page]) /\ ~Top.tail /\ Top.i < node_count(pages[Top.page])
    /\ walk' = Enter([walk.stack EXCEPT ![Len(walk.stack)].i = @ + 1],
                     pages[Top.page].nodes[Top.i + 1].child)
    /\ UNCHANGED <<pages, tbl, bt, cur, mon, res>>

\* The for loop over the nodes is done and this is the root with a last
\* leaf whose page has a next page: that page's iter_leaf_nodes() follows.
FollowLastLeaf ==
    /\ walk.status = "running" /\ walk.stack # <<>>
    /\ ~Top.tail /\ Top.i >= node_count(pages[Top.page])
    /\ is_root(pages[Top.page]) /\ Top.leaf # 0 /\ pages[Top.leaf].next_page # 0
    /\ walk' = Enter([walk.stack EXCEPT ![Len(walk.stack)].tail = TRUE],
                     pages[Top.leaf].next_page)
    /\ UNCHANGED <<pages, tbl, bt, cur, mon, res>>

\* The generator returns: its loops are done.
Return ==
    /\ walk.status = "running" /\ walk.stack # <<>>
    /\ \/ Top.tail
       \/ /\ Top.i >= node_count(pages[Top.page])
          /\ ~(is_root(pages[Top.page]) /\ Top.leaf # 0 /\ pages[Top.leaf].next_page # 0)
    /\ walk' = [walk EXCEPT !.stack = Pop,
                            !.status = IF Len(walk.stack) = 1 THEN "done" ELSE "running"]
    /\ UNCHANGED <<pages, tbl, bt, cur, mon, res>>

NextLeaf == YieldNode \/ Descend \/ FollowLastLeaf \/ Return

SpecLeaf == InitLeaf /\ [][NextLeaf]_vars

\* C7 as stated: iter_leaf_nodes() on the root comes to its end, not to
\* Python's RecursionError, and yields no leaf node more than twice.
C7_TerminatesAtMostTwice ==
    /\ walk.status # "RecursionError"
    /\ \A id \in DOMAIN walk.yields : walk.yields[id] <= 2

\* C7 witness: the page of the last leaf names the root as its next page, and
\* the walk has yielded a leaf node for the third time.
C7_Witness ==
    /\ is_branch(pages[tbl.root])
    /\ \E n \in DOMAIN pages : is_leaf(pages[n]) /\ pages[n].next_page = tbl.root
    /\ \E id \in DOMAIN walk.yields : walk.yields[id] = MaxYields

(***************************************************************************)
(* compression.py and Table.get_long_value (table.py).  The long-value     *)
(* tree holds, for a value with key k, a header node under reversed(k)      *)
(* whose data is two little-endian u32 (the second: the total size), and    *)
(* one node per chunk under reversed(k) + big-endian u32 offset.            *)
(***************************************************************************)
COMPRESS_7BITASCII == 1
COMPRESS_7BITUNICODE == 2
COMPRESS_XPRESS == 3
COMPRESS_XPRESS9 == 5
COMPRESS_XPRESS10 == 6

RECURSIVE Pow2(_)
Pow2(n) == IF n = 0 THEN 1 ELSE 2 * Pow2(n - 1)

RECURSIVE Reverse(_)
Reverse(b) == IF b = <<>> THEN <<>> ELSE Append(Reverse(Tail(b)), Head(b))

\* struct.pack / struct.unpack of one u32.
LE32(n) == <<n % 256, (n \div 256) % 256, (n \div 65536) % 256, (n \div 16777216) % 256>>
BE32(n) == Reverse(LE32(n))
UnpackLE32(b) == b[1] + 256 * b[2] + 65536 * b[3] + 16777216 * b[4]
UnpackBE32(b) == UnpackLE32(Reverse(b))

StartsWith(b, prefix) ==
    Len(b) >= Len(prefix) /\ SubSeq(b, 1, Len(prefix)) = prefix

RECURSIVE sevenbit_decompress(_, _, _, _)
\* dissect.util's sevenbit.decompress: the bytes are a stream of 7-bit
\* groups, least significant bits first; every full group is one character
\* (followed by a zero byte when wide).
sevenbit_decompress(src, val, bits, wide) ==
    IF bits >= 7
    THEN <<val % 128>> \o (IF wide THEN <<0>> ELSE <<>>)
           \o sevenbit_decompress(src, val \div 128, bits - 7, wide)
    ELSE IF src = <<>> THEN <<>>
    ELSE sevenbit_decompress(Tail(src), val + Head(src) * Pow2(bits), bits + 8, wide)

\* compression.decompress(buf).  LZXPRESS streams are not modelled: the
\* branch is marked, and no generated chunk takes it.
decompress(buf) ==
    LET identifier == buf[1] \div 8
    IN  IF identifier = COMPRESS_7BITASCII
        THEN [err |-> "ok", ret |-> sevenbit_decompress(Tail(buf), 0, 0, FALSE)]
        ELSE IF identifier = COMPRESS_7BITUNICODE
        THEN [err |-> "ok", ret |-> sevenbit_decompress(Tail(buf), 0, 0, TRUE)]
        ELSE IF identifier = COMPRESS_XPRESS THEN [err |-> "lzxpress"]
        ELSE IF identifier \in {COMPRESS_XPRESS9, COMPRESS_XPRESS10}
        THEN [err |-> "NotImplementedError"]
        ELSE [err |-> "ok", ret |-> buf]

RECURSIVE lv_collect(_, _, _, _)
\* The while loop of get_long_value: the chunks after the header and their
\* offsets, up to the first node of another value or the end of the tree.
lv_collect(b, rkey, chunks, chunk_offsets) ==
    LET took(nx) ==
            IF nx.err = "NoNeighbourPageError"
            THEN [err |-> "ok", chunks |-> chunks, chunk_offsets |-> chunk_offsets]
            ELSE IF nx.err # "ok" THEN [err |-> nx.err]
            ELSE IF ~StartsWith(nx.ret.key, rkey)
            THEN [err |-> "ok", chunks |-> chunks, chunk_offsets |-> chunk_offsets]
            ELSE IF Len(nx.ret.key) < 4 THEN [err |-> "struct.error"]
            ELSE lv_collect(nx.bt, rkey, Append(chunks, nx.ret.data),
                            Append(chunk_offsets,
                                   UnpackBE32(SubSeq(nx.ret.key, Len(nx.ret.key) - 3,
                                                     Len(nx.ret.key)))))
    IN  took(BTreeNext(b))

RECURSIVE lv_assemble(_, _, _, _, _)
\* The for loop of get_long_value over zip(chunks, chunk_offsets[1:]), at
\* its i-th round.
lv_assemble(chunks, chunk_offsets, i, chunk_offset, buf) ==
    IF i > Len(chunks) \/ i + 1 > Len(chunk_offsets) THEN [err |-> "ok", ret |-> buf]
    ELSE LET next_chunk_offset == chunk_offsets[i + 1]
             add(c) ==
                 IF c.err # "ok" THEN c
                 ELSE lv_assemble(chunks, chunk_offsets, i + 1,
                                  chunk_offset + next_chunk_offset, buf \o c.ret)
         IN  IF Len(chunks[i]) # next_chunk_offset - chunk_offset
             THEN add(decompress(chunks[i]))
             ELSE add([err |-> "ok", ret |-> chunks[i]])

\* Table.get_long_value(key).
get_long_value(key) ==
    LET rkey == Reverse(key)
        joined(size, c) ==
            IF c.err # "ok" THEN c
            ELSE lv_assemble(c.chunks, Append(c.chunk_offsets, size), 1, 0, <<>>)
        opened(header) ==
            IF header.err # "ok" THEN [err |-> header.err]
            ELSE IF Len(header.ret.data) # 8 THEN [err |-> "struct.error"]
            ELSE joined(UnpackLE32(SubSeq(header.ret.data, 5, 8)),
                        lv_collect(header.bt, rkey, <<>>, <<>>))
    IN  opened(BTreeSearch(BTreeNew(tbl.lv_page), rkey, TRUE))

(***************************************************************************)
(* Generated long values: the value under study has up to MaxChunks chunks, *)
(* each stored raw or 7-bit compressed; an optional second value follows it *)
(* in the tree.  Offsets are the running logical sizes and the header holds *)
(* their total, as ESE writes them.                                         *)
(***************************************************************************)
MaxChunks == 3

\* Stored bytes of a chunk and the size of what they stand for: raw data,
\* raw data that begins like a compressed stream, a 7-bit ASCII stream.
ChunkKinds ==
    {[data |-> <<65>>, size |-> 1],
     [data |-> <<8, 65>>, size |-> 2],
     [data |-> <<40, 65>>, size |-> 2],
     [data |-> <<8, 193, 48>>, size |-> 2]}

LVKey(k) == <<k, 0, 0, 0>>

RECURSIVE TotalSize(_)
TotalSize(cs) == IF cs = <<>> THEN 0 ELSE Head(cs).size + TotalSize(Tail(cs))

\* The nodes of one long value: its header, then its chunks.
LVEntries(k, cs) ==
    <<[key |-> Reverse(LVKey(k)), data |-> LE32(1) \o LE32(TotalSize(cs))]>>
    \o [i \in 1..Len(cs) |->
          [key |-> Reverse(LVKey(k)) \o BE32(TotalSize(SubSeq(cs, 1, i - 1))),
           data |-> cs[i].data]]

InitLV ==
    /\ \E cs \in UNION {[1..n -> ChunkKinds] : n \in 0..MaxChunks},
          more \in BOOLEAN, cap \in 1..MaxCap :
          pages = TreePages(LVEntries(1, cs)
                              \o (IF more THEN LVEntries(2, <<[data |-> <<65>>, size |-> 1]>>)
                                  ELSE <<>>),
                            cap, Fan, 0)
    /\ tbl = [root |-> RootOf(pages), lv_page |-> RootOf(pages)]
    /\ bt = Idle
    /\ cur = Idle
    /\ mon = Idle
    /\ walk = Idle
    /\ res = [op |-> "init"]

DoGetLongValue(k) ==
    /\ res' = [op |-> "get_long_value", key |-> LVKey(k), out |-> get_long_value(LVKey(k))]
    /\ UNCHANGED <<pages, tbl, bt, cur, mon, walk>>

NextLV == \E k \in 1..3 : DoGetLongValue(k)

SpecLV == InitLV /\ [][NextLV]_vars

\* The header node of a long value, as the tree holds it.
HeaderOf(key) == BTreeSearch(BTreeNew(tbl.lv_page), Reverse(key), TRUE).ret
ChunkCount(key) ==
    Cardinality({id \in LeafNodeIds :
                   /\ StartsWith(pages[id[1]].nodes[id[2] + 1].key, Reverse(key))
                   /\ Len(pages[id[1]].nodes[id[2] + 1].key) = 8})

\* C8 as stated: when get_long_value returns a buffer, its length is the
\* total size in the header node found under the reversed key.
C8_LengthIsTotalSize ==
    (res.op = "get_long_value" /\ res.out.err = "ok")
        => Len(res.out.ret) = UnpackLE32(SubSeq(HeaderOf(res.key).data, 5, 8))

\* C8 witness: a value of three raw chunks came back shorter than its total
\* size.
C8_Witness ==
    /\ res.op = "get_long_value" /\ res.out.err = "ok"
    /\ ChunkCount(res.key) = 3
    /\ Len(res.out.ret) < UnpackLE32(SubSeq(HeaderOf(res.key).data, 5, 8))

(***************************************************************************)
(* record.py: Record objects and their comparison.  Table.records() wraps   *)
(* every leaf node of the table tree in a Record; Record(table, node) wraps *)
(* a node again in a new object.  Objects live in a heap (mon.objs) and are *)
(* told apart by their position in it.                                      *)
(***************************************************************************)
MaxObjs == 3

RECURSIVE iter_leaf_nodes(_, _)
RECURSIVE iter_children(_, _, _)
\* The slip of following the sibling link after the last leaf on every
\* branch page, not only on a root.
iter_leaf_nodes_any(pn, fuel) ==
    IF fuel = 0 THEN <<>>
    ELSE LET tail(leaf) ==
                 IF leaf # <<>> /\ pages[leaf[Len(leaf)].page].next_page # 0
                 THEN leaf \o iter_leaf_nodes(pages[leaf[Len(leaf)].page].next_page, fuel - 1)
                 ELSE leaf
         IN  IF is_leaf(pages[pn])
             THEN [i \in 1..node_count(pages[pn]) |-> NodeAt(pn, i - 1)]
             ELSE tail(iter_children(pn, 0, fuel - 1))

\* The slip of walking the nodes of a branch page from the last to the
\* first.
iter_children_reversed(pn, i, fuel) ==
    IF i >= node_count(pages[pn]) THEN <<>>
    ELSE iter_children(pn, i + 1, fuel) \o iter_leaf_nodes(pages[pn].nodes[i + 1].child, fuel)

\* The for loop of iter_leaf_nodes over the nodes of a branch page from
\* node i on.
iter_children(pn, i, fuel) ==
    IF i >= node_count(pages[pn]) THEN <<>>
    ELSE iter_leaf_nodes(pages[pn].nodes[i + 1].child, fuel) \o iter_children(pn, i + 1, fuel)

\* list(page.iter_leaf_nodes()), nested at most fuel deep.  The variable
\* leaf is bound only by the loop over a child's leaves: on a leaf page it
\* stays None.
iter_leaf_nodes(pn, fuel) ==
    IF fuel = 0 THEN <<>>
    ELSE LET tail(leaf) ==
                 IF is_root(pages[pn]) /\ leaf # <<>>
                    /\ pages[leaf[Len(leaf)].page].next_page # 0
                 THEN leaf \o iter_leaf_nodes(pages[leaf[Len(leaf)].page].next_page, fuel - 1)
                 ELSE leaf
         IN  IF is_leaf(pages[pn])
             THEN [i \in 1..node_count(pages[pn]) |-> NodeAt(pn, i - 1)]
             ELSE tail(iter_children(pn, 0, fuel - 1))

\* Table.records().
TableRecords ==
    LET nodes == iter_leaf_nodes(tbl.root, RecursionLimit)
    IN  [i \in 1..Len(nodes) |-> [id |-> i] @@ Record(nodes[i])]

\* a == b: Record defines no __eq__, so object.__eq__ answers, which holds
\* of an object and itself only.
RecordEq(a, b) == a.id = b.id

\* a < b and a <= b: Record defines no __lt__, __le__, __gt__ or __ge__, so
\* neither operand answers and the comparison raises TypeError, also for
\* r <= r.
RecordLt(a, b) == [err |-> "TypeError"]
RecordLe(a, b) == [err |-> "TypeError"]

\* hash(a): Record defines no __hash__, so object.__hash__ answers, by the
\* identity of the object.
RecordHash(a) == a.id

\* set.add: an element is absorbed by one already held with the same hash
\* that is the same object or equal to it.
SetAdd(held, o) ==
    IF \E x \in held : RecordHash(x) = RecordHash(o) /\ (x.id = o.id \/ RecordEq(x, o))
    THEN held ELSE held \cup {o}

\* Key sequences of a table tree: strictly increasing (primary keys differ).
UniqueKeySeqs ==
    {s \in SortedKeySeqs : \A i \in 1..(Len(s) - 1) : s[i] # s[i + 1]}

InitRec ==
    /\ \E s \in UniqueKeySeqs, cap \in 1..MaxCap :
          pages = TreePages(KeyEntries(s), cap, Fan, 0)
    /\ tbl = [name |-> "T", root |-> RootOf(pages)]
    /\ bt = Idle
    /\ cur = Idle
    /\ mon = [objs |-> <<>>, held |-> {}]
    /\ walk = Idle
    /\ res = [op |-> "init"]

\* records = list(table.records())
DoRecords ==
    /\ mon.objs = <<>>
    /\ mon' = [mon EXCEPT !.objs = TableRecords]
    /\ res' = [op |-> "records"]
    /\ UNCHANGED <<pages, tbl, bt, cur, walk>>

\* obj = Record(table, records[i]._node)
DoRecord(i) ==
    /\ i \in DOMAIN mon.objs /\ Len(mon.objs) < MaxObjs
    /\ mon' = [mon EXCEPT !.objs = Append(@, [id |-> Len(@) + 1] @@ Record(mon.objs[i].node))]
    /\ res' = [op |-> "Record", of |-> i]
    /\ UNCHANGED <<pages, tbl, bt, cur, walk>>

\* a == b, a < b, a <= b, hash(a) == hash(b)
DoCompare(i, j) ==
    /\ i \in DOMAIN mon.objs /\ j \in DOMAIN mon.objs
    /\ res' = [op |-> "compare", a |-> mon.objs[i], b |-> mon.objs[j],
               eq |-> RecordEq(mon.objs[i], mon.objs[j]),
               lt |-> RecordLt(mon.objs[i], mon.objs[j]),
               le |-> RecordLe(mon.objs[i], mon.objs[j]),
               hash_eq |-> RecordHash(mon.objs[i]) = RecordHash(mon.objs[j])]
    /\ UNCHANGED <<pages, tbl, bt, cur, mon, walk>>

\* held.add(a)
DoSetAdd(i) ==
    /\ i \in DOMAIN mon.objs
    /\ mon' = [mon EXCEPT !.held = SetAdd(@, mon.objs[i])]
    /\ res' = [op |-> "set.add", a |-> mon.objs[i], before |-> mon.held]
    /\ UNCHANGED <<pages, tbl, bt, cur, walk>>

NextRec ==
    \/ DoRecords
    \/ \E i \in 1..MaxObjs : DoRecord(i)
    \/ \E i \in 1..MaxObjs, j \in 1..MaxObjs : DoCompare(i, j)
    \/ \E i \in 1..MaxObjs : DoSetAdd(i)

SpecRec == InitRec /\ [][NextRec]_vars

\* Two records wrap the same node of the tree.
SameNode(a, b) == a.node.page = b.node.page /\ a.node.num = b.node.num

\* C9: records of a table compare by the key of their node.  Records of the
\* same node are equal and hash equal, also when they are distinct objects,
\* and a set holding one absorbs the other; records of different nodes are
\* unequal; < and <= answer, following the byte order of the node keys, with
\* r <= r.
C9_RecordsCompareByKey ==
    /\ res.op = "compare" =>
          /\ SameNode(res.a, res.b) => (res.eq /\ res.hash_eq)
          /\ ~SameNode(res.a, res.b) => ~res.eq
          /\ res.lt.err = "ok"
          /\ res.lt.ret <=> BytesLess(res.a.node.key, res.b.node.key)
          /\ res.le.err = "ok"
          /\ res.le.ret <=> BytesLeq(res.a.node.key, res.b.node.key)
    /\ res.op = "set.add" =>
          /\ (\E x \in res.before : SameNode(x, res.a)) => mon.held = res.before
          /\ (\A x \in res.before : ~SameNode(x, res.a)) => mon.held = res.before \cup {res.a}

\* C9 witness: of a table with two records, the first record and a second
\* object made from its node (obj = Record(table, records[0]._node)) compared
\* unequal and hashed apart, < and <= raised TypeError, and the set of the
\* two records and obj holds three elements.
C9_Witness ==
    /\ res.op = "compare" /\ res.a.id = 1 /\ res.b.id = 3 /\ SameNode(res.a, res.b)
    /\ Len(mon.objs) = 3 /\ ~SameNode(mon.objs[1], mon.objs[2])
    /\ ~res.eq /\ ~res.hash_eq
    /\ res.lt.err = "TypeError" /\ res.le.err = "TypeError"
    /\ Cardinality(mon.held) = 3

(***************************************************************************)
(* Table.find_index (table.py): the index to search with for a set of       *)
(* column names.                                                            *)
(***************************************************************************)
MaxIndexes == 2
MaxIdxCols == 2
MaxQuery == 2

ColumnNames == {"Id", "Bit", "UnsignedByte"}
QueryNames == ColumnNames \cup {"SomethingElse"}

InSeq(x, s) == \E k \in DOMAIN s : s[k] = x

RECURSIVE match_count(_, _, _)
\* The inner for loop: count the columns of the index up to the first one
\* that is not asked for.
match_count(columns, column_names, i) ==
    IF i >= Len(columns) THEN i
    ELSE IF ~InSeq(columns[i + 1], column_names) THEN i
    ELSE match_count(columns, column_names, i + 1)

RECURSIVE find_index_loop_last(_, _, _, _)
\* The slip of taking an index that matches as well as the best so far.
find_index_loop_last(column_names, k, best_match, best_index) ==
    IF k > Len(tbl.indexes) THEN best_index
    ELSE LET i == match_count(tbl.indexes[k].columns, column_names, 0)
         IN  IF i >= best_match /\ i > 0
             THEN find_index_loop_last(column_names, k + 1, i, k)
             ELSE find_index_loop_last(column_names, k + 1, best_match, best_index)

RECURSIVE find_index_loop(_, _, _, _)
\* The outer for loop over self.indexes from the k-th index on.  An index
\* is named by its position in self.indexes; 0 is None.
find_index_loop(column_names, k, best_match, best_index) ==
    IF k > Len(tbl.indexes) THEN best_index
    ELSE LET i == match_count(tbl.indexes[k].columns, column_names, 0)
         IN  IF i > best_match
             THEN find_index_loop(column_names, k + 1, i, k)
             ELSE find_index_loop(column_names, k + 1, best_match, best_index)

find_index(column_names) == find_index_loop(column_names, 1, 0, 0)

\* Column lists of an index: distinct columns.
IndexColumnLists ==
    {c \in UNION {[1..n -> ColumnNames] : n \in 1..MaxIdxCols} :
        \A i \in DOMAIN c, j \in DOMAIN c : c[i] = c[j] => i = j}

InitIdx ==
    /\ \E ixs \in UNION {[1..n -> IndexColumnLists] : n \in 0..MaxIndexes} :
          tbl = [name |-> "T", indexes |-> [k \in DOMAIN ixs |-> [columns |-> ixs[k]]]]
    /\ pages = Idle
    /\ bt = Idle
    /\ cur = Idle
    /\ mon = Idle
    /\ walk = Idle
    /\ res = [op |-> "init"]

\* find_index changes nothing: one call per table is followed.
DoFindIndex(column_names) ==
    /\ res.op = "init"
    /\ res' = [op |-> "find_index", column_names |-> column_names,
               out |-> find_index(column_names)]
    /\ UNCHANGED <<pages, tbl, bt, cur, mon, walk>>

NextIdx ==
    \E column_names \in UNION {[1..n -> QueryNames] : n \in 0..MaxQuery} :
        DoFindIndex(column_names)

SpecIdx == InitIdx /\ [][NextIdx]_vars

\* The number of leading columns of the k-th index whose names are all in
\* the set names.
Leading(k, names) ==
    LET cols == tbl.indexes[k].columns
        full == {n \in 0..Len(cols) : \A j \in 1..n : cols[j] \in names}
    IN  CHOOSE n \in full : \A m \in full : m <= n

\* C10: find_index returns the index with the most leading columns among
\* the names asked for, whatever their order; of several such indexes the
\* earliest in table.indexes; None when no index has its first column among
\* the names.
C10_FindIndexMostLeadingColumns ==
    res.op = "find_index" =>
        LET names == {res.column_names[k] : k \in DOMAIN res.column_names}
            hit == {k \in DOMAIN tbl.indexes : Leading(k, names) > 0}
        IN  IF hit = {} THEN res.out = 0
            ELSE /\ res.out \in hit
                 /\ \A k \in hit : Leading(k, names) <= Leading(res.out, names)
                 /\ \A k \in hit : Leading(k, names) = Leading(res.out, names) => res.out <= k

\* C10 witness: two indexes match two leading columns each, asked for in
\* the reverse of the indexes' order, and the first of the two is returned.
C10_Witness ==
    /\ res.op = "find_index" /\ res.out # 0
    /\ Len(tbl.indexes[res.out].columns) = 2
    /\ res.column_names = <<tbl.indexes[res.out].columns[2], tbl.indexes[res.out].columns[1]>>
    /\ \E k \in DOMAIN tbl.indexes :
          k > res.out /\ tbl.indexes[k].columns = tbl.indexes[res.out].columns

(***************************************************************************)
(* esedb.py: opening a database, reading physical pages, the page cache.    *)
(* The source file is its header fields, the offsets at which a duplicate   *)
(* header with the magic lies, the child pages of its catalog root, and its *)
(* bytes; byte i of the file holds i, so that a read tells where it read.   *)
(* Page sizes and the cache size are scaled down.                           *)
(***************************************************************************)
\* 0x89ABCDEF, as the four bytes of the little-endian ULONG in the file.
ulDAEMagic == <<239, 205, 171, 137>>
pgnoFDPMSO == 4
MaxFileLen == 13
MaxPageNum == 5
MaxCache == 2

PageSizes == {1, 2}
FormatMajors == {8, 9}
\* k of the offsets 0x800 << k at which a shadow header may lie.
ShadowShifts == {0, 4}

FileBytes(n) == [i \in 1..n |-> i - 1]

\* fh.seek(offset); fh.read(size): the bytes there, fewer at the end of file.
ReadAt(fh, offset, size) ==
    SubSeq(fh.bytes, offset + 1, Min(offset + size, Len(fh.bytes)))

\* read_page with the page index taken for the page number.
read_page_from_zero(db, num) ==
    IF num < 1 THEN [err |-> "IndexError"]
    ELSE LET buf == ReadAt(pages, num * db.page_size, db.page_size)
         IN  IF Len(buf) # db.page_size THEN [err |-> "IndexError"]
             ELSE [err |-> "ok", ret |-> buf]

\* EseDB.read_page(num).
read_page(db, num) ==
    IF num < 1 THEN [err |-> "IndexError"]
    ELSE LET buf == ReadAt(pages, (num - 1) * db.page_size, db.page_size)
         IN  IF Len(buf) # db.page_size THEN [err |-> "IndexError"]
             ELSE [err |-> "ok", ret |-> buf]

\* The body of EseDB.page(num), without its cache.
page_uncached(db, num) ==
    LET made(b) == IF b.err # "ok" THEN b
                   ELSE [err |-> "ok", ret |-> [num |-> num, buf |-> b.ret]]
    IN  made(read_page(db, num + 2))

\* functools.lru_cache: the entries, most recently used first.
CacheFind(cache, num) == {k \in DOMAIN cache : cache[k].num = num}
CacheTouch(cache, k) ==
    <<cache[k]>> \o SubSeq(cache, 1, k - 1) \o SubSeq(cache, k + 1, Len(cache))

\* A cache that takes a new entry without letting the oldest one go.
CacheInsertUnbounded(cache, entry, maxsize) == <<entry>> \o cache

CacheInsert(cache, entry, maxsize) ==
    SubSeq(<<entry>> \o cache, 1, Min(Len(cache) + 1, maxsize))

\* EseDB.page(num) under lru_cache(maxsize): the result and the cache after.
page(db, cache, num) ==
    IF CacheFind(cache, num) # {}
    THEN LET k == CHOOSE k \in CacheFind(cache, num) : TRUE
         IN  [err |-> "ok", ret |-> cache[k].page, cache |-> CacheTouch(cache, k)]
    ELSE LET got(r) ==
                 IF r.err # "ok" THEN [err |-> r.err, cache |-> cache]
                 ELSE [err |-> "ok", ret |-> r.ret,
                       cache |-> CacheInsert(cache, [num |-> num, page |-> r.ret], MaxCache)]
         IN  got(page_uncached(db, num))

RECURSIVE fetch_pages(_, _, _)
\* esedb.page(num) for each num of nums in turn, up to the first that
\* raises: the error and the cache after.
fetch_pages(db, cache, nums) ==
    IF nums = <<>> THEN [err |-> "ok", cache |-> cache]
    ELSE LET went(r) == IF r.err # "ok" THEN [err |-> r.err, cache |-> r.cache]
                        ELSE fetch_pages(db, r.cache, Tail(nums))
         IN  went(page(db, cache, Head(nums)))

\* The pages Catalog.__init__ takes while it walks the records of the
\* catalog: Table.root, then in iter_leaf_nodes() the child of every node of
\* the root branch page.  The leaf pages of the catalogs here hold no record.
catalog_walk(fh) == <<pgnoFDPMSO>> \o fh.catalog

\* EseDB.__init__(fh): the database object, or the error raised, and the
\* page cache after.  Catalog(self, pgnoFDPMSO) walks the records of the
\* catalog, every page of its tree taken through the cached EseDB.page();
\* an error on the way is raised by the constructor.
EseDBNew(fh, cache) ==
    IF fh.header.ulMagic # ulDAEMagic THEN [err |-> "InvalidDatabase", cache |-> cache]
    ELSE IF fh.header.ulDaeUpdateMajor < 9 THEN [err |-> "InvalidDatabase", cache |-> cache]
    ELSE LET db == [page_size |-> fh.header.cbPageSize,
                    format_major |-> fh.header.ulDaeUpdateMajor]
             catalog(r) == IF r.err # "ok" THEN [err |-> r.err, cache |-> r.cache]
                           ELSE [err |-> "ok", db |-> db, cache |-> r.cache]
         IN  catalog(fetch_pages(db, cache, catalog_walk(fh)))

\* The catalog trees of the files: page 4 an empty root leaf page, or a
\* root branch page whose nodes point to these pages, empty leaf pages when
\* the file reaches them.
CatalogChildren == {<<>>, <<5>>, <<6>>, <<5, 6>>, <<6, 5>>}

InitDB ==
    /\ \E magic \in {ulDAEMagic, <<137, 171, 205, 239>>}, major \in FormatMajors, ps \in PageSizes,
          shadows \in {{}} \cup {{k} : k \in ShadowShifts}, n \in 0..MaxFileLen,
          children \in CatalogChildren :
          pages = [header |-> [ulMagic |-> magic, cbPageSize |-> ps,
                               ulDaeUpdateMajor |-> major],
                   shadows |-> shadows,
                   catalog |-> children,
                   bytes |-> FileBytes(n)]
    /\ tbl = [state |-> "closed"]
    /\ bt = Idle
    /\ cur = Idle
    /\ mon = <<>>
    /\ walk = Idle
    /\ res = [op |-> "init"]

\* db = EseDB(fh)
DoOpen ==
    /\ tbl.state = "closed"
    /\ \E r \in {EseDBNew(pages, mon)} :
          /\ res' = [op |-> "EseDB", err |-> r.err]
          /\ tbl' = IF r.err = "ok" THEN [state |-> "open"] @@ r.db
                    ELSE [state |-> "failed"]
          /\ mon' = r.cache
    /\ UNCHANGED <<pages, bt, cur, walk>>

\* db.read_page(num)
DoReadPage(num) ==
    /\ tbl.state = "open"
    /\ res' = [op |-> "read_page", num |-> num, out |-> read_page(tbl, num)]
    /\ UNCHANGED <<pages, tbl, bt, cur, mon, walk>>

\* db.page(num)
DoPage(num) ==
    /\ tbl.state = "open"
    /\ \E r \in {page(tbl, mon, num)} :
          /\ mon' = r.cache
          /\ res' = [op |-> "page", num |-> num,
                     out |-> [k \in (DOMAIN r) \ {"cache"} |-> r[k]]]
    /\ UNCHANGED <<pages, tbl, bt, cur, walk>>

NextDB ==
    \/ DoOpen
    \/ \E num \in (-1)..(MaxPageNum + 2) : DoReadPage(num)
    \/ \E num \in (-3)..MaxPageNum : DoPage(num)

SpecDB == InitDB /\ [][NextDB]_vars

\* C11 as stated: opening fails with InvalidDatabase when the magic is
\* wrong, when the format major is below 9, and when the source has no
\* shadow header.
C11_OpenFailsInvalidDatabase ==
    (/\ res.op = "EseDB"
     /\ \/ pages.header.ulMagic # ulDAEMagic
        \/ pages.header.ulDaeUpdateMajor < 9
        \/ pages.shadows = {})
        => res.err = "InvalidDatabase"

\* C11 witness: a source with the magic, format major 9 and no shadow
\* header was opened without an error.
C11_Witness ==
    /\ res.op = "EseDB" /\ res.err = "ok"
    /\ pages.header.ulMagic = ulDAEMagic /\ pages.header.ulDaeUpdateMajor >= 9
    /\ pages.shadows = {}

\* The page_size bytes of the file from offset on, if the file has them.
HasBytesAt(offset, size) == offset >= 0 /\ offset + size <= Len(pages.bytes)
IsBytesAt(buf, offset, size) ==
    /\ Len(buf) = size
    /\ \A i \in 1..size : buf[i] = pages.bytes[offset + i]

\* C12: read_page(num) fails with the page-out-of-range error (IndexError)
\* when num < 1 or when the file has fewer than page_size bytes at offset
\* (num - 1) * page_size; in every other case it returns exactly the
\* page_size bytes at that offset.
C12_ReadPageExactOrOutOfRange ==
    res.op = "read_page" =>
        IF res.num < 1 \/ ~HasBytesAt((res.num - 1) * tbl.page_size, tbl.page_size)
        THEN res.out.err = "IndexError"
        ELSE /\ res.out.err = "ok"
             /\ IsBytesAt(res.out.ret, (res.num - 1) * tbl.page_size, tbl.page_size)

\* C12 witness: with pages of two bytes the last whole page of a file that
\* ends one byte after it was read, and its two bytes came back.
C12_Witness ==
    /\ res.op = "read_page" /\ res.out.err = "ok" /\ tbl.page_size = 2
    /\ res.num * tbl.page_size = Len(pages.bytes) - 1
    /\ res.out.ret = <<Len(pages.bytes) - 3, Len(pages.bytes) - 2>>

\* C13: every page(n) that returns gives the page with the bytes of the
\* source at offset (n + 1) * page_size, whatever the cache holds or has
\* let go, and the cache never holds more than its maximum of entries.
C13_PageCacheTransparent ==
    /\ res.op = "page" /\ res.out.err = "ok" =>
          /\ res.out.ret.num = res.num
          /\ IsBytesAt(res.out.ret.buf, (res.num + 1) * tbl.page_size, tbl.page_size)
    /\ res.op = "page" =>
          (res.out.err = "ok" <=> HasBytesAt((res.num + 1) * tbl.page_size, tbl.page_size))
    /\ tbl.state = "open" => Len(mon) <= MaxCache

\* C13 witness: the cache is full; the page just returned, the one at offset
\* 0 (n = -1), is its newest entry, and the others are pages further on.
C13_Witness ==
    /\ res.op = "page" /\ res.out.err = "ok"
    /\ Len(mon) = MaxCache /\ mon[1].num = res.num
    /\ \A k \in 2..Len(mon) : mon[k].num > res.num + 1
    /\ res.num = -1

(***************************************************************************)
(* Several cursors at once.  BTree objects live in a heap (bt); a Cursor    *)
(* holds a reference to the BTree that Cursor.__init__ made for it, and     *)
(* Table.get_long_value makes a BTree of its own that is dropped when it    *)
(* returns.  The table's tree and its long-value tree share the page store. *)
(***************************************************************************)
MaxCursors == 2

\* A constructor that hands out the first BTree object again, set to the
\* root asked for, instead of making a new one.
NewBTreeShared(heap, rootnum) ==
    IF heap = <<>> THEN [heap |-> <<BTreeNew(rootnum)>>, ref |-> 1]
    ELSE [heap |-> [heap EXCEPT ![1] = BTreeNew(rootnum)], ref |-> 1]

\* BTree(esedb, root): a new object.
NewBTree(heap, rootnum) ==
    [heap |-> Append(heap, BTreeNew(rootnum)), ref |-> Len(heap) + 1]

\* The cursor object c with its BTree taken from the heap.
Deref(c) ==
    [index |-> cur[c].index, primary |-> bt[cur[c].primary], secondary |-> NoObject]

RECURSIVE lv_cursor_loop(_, _)
\* The BTree of get_long_value after its while loop.
lv_cursor_loop(b, rkey) ==
    LET took(nx) ==
            IF nx.err # "ok" THEN nx.bt
            ELSE IF ~StartsWith(nx.ret.key, rkey) THEN nx.bt
            ELSE lv_cursor_loop(nx.bt, rkey)
    IN  took(BTreeNext(b))

\* The BTree of get_long_value(key) when the call ends, started as b.
lv_cursor(b, key) ==
    LET opened(header) ==
            IF header.err # "ok" THEN header.bt
            ELSE lv_cursor_loop(header.bt, Reverse(key))
    IN  opened(BTreeSearch(b, Reverse(key), TRUE))

\* Table trees of up to two records.
TwoKeySeqs ==
    {s \in UniqueKeySeqs : Len(s) <= 2 /\ \A i \in DOMAIN s : s[i] \in {<<0>>, <<1>>, <<1, 0>>}}

InitTwo ==
    /\ \E s \in TwoKeySeqs, cap \in 1..MaxCap :
          LET tp == TreePages(KeyEntries(s), cap, Fan, 0)
              lp == TreePages(LVEntries(1, <<[data |-> <<65>>, size |-> 1],
                                             [data |-> <<66>>, size |-> 1]>>),
                              cap, Fan, RootOf(tp))
          IN  /\ pages = tp @@ lp
              /\ tbl = [name |-> "T", root |-> RootOf(tp), lv_page |-> RootOf(lp)]
    /\ bt = <<>>
    /\ cur = <<>>
    /\ mon = Idle
    /\ walk = Idle
    /\ res = [op |-> "init", by |-> 0]

\* cursor = Cursor(index) on the table's primary index.
DoCursorInit ==
    /\ Len(cur) < MaxCursors
    /\ \E a \in {NewBTree(bt, tbl.root)} :
          /\ bt' = a.heap
          /\ cur' = Append(cur, [index |-> [root |-> tbl.root, is_primary |-> TRUE],
                                 primary |-> a.ref])
    /\ res' = [op |-> "Cursor", by |-> Len(cur) + 1]
    /\ UNCHANGED <<pages, tbl, mon, walk>>

\* What a cursor operation with result r leaves: the BTree of cursor c.
Moved(c, op, r) ==
    /\ bt' = [bt EXCEPT ![cur[c].primary] = r.cur.primary]
    /\ res' = [op |-> op, by |-> c, err |-> r.err]
    /\ UNCHANGED <<pages, tbl, cur, mon, walk>>

DoSearchOn(c, key, exact) ==
    /\ c \in DOMAIN cur
    /\ \E r \in {CursorSearchKey(Deref(c), key, exact)} : Moved(c, "search_key", r)

DoNextOn(c) ==
    /\ c \in DOMAIN cur
    /\ \E r \in {CursorNext(Deref(c))} : Moved(c, "next", r)

DoPrevOn(c) ==
    /\ c \in DOMAIN cur
    /\ \E r \in {CursorPrev(Deref(c))} : Moved(c, "prev", r)

DoResetOn(c) ==
    /\ c \in DOMAIN cur
    /\ bt' = [bt EXCEPT ![cur[c].primary] = CursorReset(Deref(c)).primary]
    /\ res' = [op |-> "reset", by |-> c, err |-> "ok"]
    /\ UNCHANGED <<pages, tbl, cur, mon, walk>>

\* table.get_long_value(key) while a record is decoded: the BTree it makes
\* is gone when it returns.
DoLongValue(k) ==
    /\ \E a \in {NewBTree(bt, tbl.lv_page)} :
          bt' = IF a.ref > Len(bt) THEN bt
                ELSE [a.heap EXCEPT ![a.ref] = lv_cursor(a.heap[a.ref], LVKey(k))]
    /\ res' = [op |-> "get_long_value", by |-> 0, err |-> get_long_value(LVKey(k)).err]
    /\ UNCHANGED <<pages, tbl, cur, mon, walk>>

NextTwo ==
    \/ DoCursorInit
    \/ \E c \in 1..MaxCursors, key \in SearchKeys, exact \in BOOLEAN : DoSearchOn(c, key, exact)
    \/ \E c \in 1..MaxCursors : DoNextOn(c)
    \/ \E c \in 1..MaxCursors : DoPrevOn(c)
    \/ \E c \in 1..MaxCursors : DoResetOn(c)
    \/ \E k \in 1..2 : DoLongValue(k)

SpecTwo == InitTwo /\ [][NextTwo]_vars

\* The position of cursor c.
PositionOf(heap, cursors, c) ==
    [page |-> heap[cursors[c].primary].page, node_num |-> heap[cursors[c].primary].node_num]

\* C14: the position (page, node index) of a cursor changes only by an
\* operation on that cursor: search, next, prev and reset on one cursor, the
\* making of another cursor, and a long-value retrieval leave the position
\* of every other cursor as it was.
C14_CursorsIndependent ==
    [][\A c \in DOMAIN cur :
          c # res'.by => PositionOf(bt', cur', c) = PositionOf(bt, cur, c)]_vars

\* C14 witness: two cursors over the table's tree stand on different leaf
\* nodes away from the root's node 0, and a long value has just been
\* retrieved.
C14_Witness ==
    /\ res.op = "get_long_value" /\ res.err = "ok"
    /\ Len(cur) = 2
    /\ PositionOf(bt, cur, 1) # PositionOf(bt, cur, 2)
    /\ \A c \in {1, 2} :
          /\ is_leaf(pages[PositionOf(bt, cur, c).page])
          /\ PositionOf(bt, cur, c) # [page |-> tbl.root, node_num |-> 0]

(***************************************************************************)
(* page.py: Page.__init__ on the fields of a page header.  A Page object is *)
(* the attributes the constructor sets; reading an attribute it did not set *)
(* raises AttributeError.                                                   *)
(***************************************************************************)
PGHDR_len == 40
PGHDR2_len == 40

\* Values of the 16-bit field at the tag count's place in the header: the
\* upper four bits and the lower twelve.
TagStates == {hi * 4096 + lo : hi \in 0..15, lo \in {0, 1, 105, 4095}}

\* Page.__init__(esedb, num, buf).
PageNew(small, header) ==
    [num |-> 0,
     flags |-> header.fFlags,
     previous_page |-> header.pgnoPrev,
     next_page |-> header.pgnoNext,
     data_start |-> IF small THEN PGHDR_len ELSE PGHDR_len + PGHDR2_len,
     data_end |-> header.ibMicFree,
     tag_count |-> header.itagMicFree,
     node_count |-> header.itagMicFree - 1]

\* obj.name
GetAttr(obj, name) ==
    IF name \in DOMAIN obj THEN [err |-> "ok", ret |-> obj[name]]
    ELSE [err |-> "AttributeError"]

InitPage ==
    /\ \E state \in TagStates, flags \in SUBSET {"Root", "Leaf"}, small \in BOOLEAN :
          pages = [small |-> small,
                   header |-> [pgnoPrev |-> 0, pgnoNext |-> 0, ibMicFree |-> 0,
                               itagMicFree |-> state, fFlags |-> flags]]
    /\ tbl = [state |-> "raw"]
    /\ bt = Idle
    /\ cur = Idle
    /\ mon = Idle
    /\ walk = Idle
    /\ res = [op |-> "init"]

\* page = Page(esedb, 0, buf)
DoPageNew ==
    /\ tbl.state = "raw"
    /\ tbl' = [state |-> "parsed", page |-> PageNew(pages.small, pages.header)]
    /\ res' = [op |-> "Page"]
    /\ UNCHANGED <<pages, bt, cur, mon, walk>>

\* page.tag_count, page.tag_reserved, page.node_count
DoGetAttr(name) ==
    /\ tbl.state = "parsed"
    /\ res' = [op |-> "getattr", name |-> name, out |-> GetAttr(tbl.page, name)]
    /\ UNCHANGED <<pages, tbl, bt, cur, mon, walk>>

NextPage ==
    \/ DoPageNew
    \/ \E name \in {"tag_count", "tag_reserved", "node_count"} : DoGetAttr(name)

SpecPage == InitPage /\ [][NextPage]_vars

\* C15 as stated: of the 16-bit tag-state field, tag_count is the field
\* with its upper four bits masked off, and tag_reserved is the upper bits,
\* or 1 when they are zero.
C15_TagStateSplit ==
    /\ (res.op = "getattr" /\ res.name = "tag_count") =>
          (res.out.err = "ok" /\ res.out.ret = pages.header.itagMicFree % 4096)
    /\ (res.op = "getattr" /\ res.name = "tag_reserved") =>
          /\ res.out.err = "ok"
          /\ res.out.ret = IF pages.header.itagMicFree \div 4096 = 0 THEN 1
                           ELSE pages.header.itagMicFree \div 4096

\* C15 witness: the header of the test with state 0x2069 was parsed and its
\* tag_count read as the whole field, 0x2069.
C15_Witness ==
    /\ res.op = "getattr" /\ res.name = "tag_count"
    /\ pages.header.itagMicFree = 8297
    /\ res.out.err = "ok" /\ res.out.ret = 8297

(***************************************************************************)
(* record.py: RecordData and TagField.  A record is the bytes of its node:  *)
(* RECHDR, fixed and variable data, then the TAGFLD array (per entry a      *)
(* little-endian u16 identifier and a u16 offset with flag bits) and the    *)
(* data of the tagged fields.  Values are tagged: None, or bytes.           *)
(***************************************************************************)
fNullSmallPage == 8192
fExtendedInfo == 16384
fDerived == 32768
TAGFLD_Compressed == 2
TAGFLD_Separated == 4
TAGFLD_MultiValues == 8
TAGFLD_Null == 32

MaxTagged == 2

PyBytes(b) == [k |-> "bytes", v |-> b]

\* x & bit, for a single bit.
HasBit(x, bit) == (x \div bit) % 2 = 1

\* struct "<H" at position pos (from 0) of data.
U16(data, pos) == data[pos + 1] + 256 * data[pos + 2]
LE16(n) == <<n % 256, n \div 256>>

\* data[a:b] of Python, for 0 <= a.
Slice(data, a, b) == SubSeq(data, a + 1, Min(b, Len(data)))

\* TagField.__init__(record, value): value is the TAGFLD at position pos.
\* data[i] beyond the end raises IndexError.
TagFieldNew(rec, pos) ==
    LET ident == U16(rec.data, pos)
        raw == U16(rec.data, pos + 2)
        offset == IF rec.small THEN raw % fNullSmallPage ELSE raw % fDerived
        ext == IF rec.small THEN HasBit(raw, fExtendedInfo) ELSE TRUE
        at == rec.tagged_data_start + offset
        made(flags) == [err |-> "ok",
                        tf |-> [identifier |-> ident, raw_offset |-> raw, offset |-> offset,
                                has_extended_info |-> ext, flags |-> flags]]
    IN  IF ext /\ Len(rec.data) >= at
        THEN IF at + 1 > Len(rec.data) THEN [err |-> "IndexError"]
             ELSE made(rec.data[at + 1])
        ELSE made(0)

\* TagField.is_null.
is_null(rec, tf) ==
    IF rec.small THEN HasBit(tf.raw_offset, fNullSmallPage)
    ELSE HasBit(tf.flags, TAGFLD_Null)

\* RecordData.__init__(table, node), for a node on a page in the new record
\* format.
RecordDataNew(small, data) ==
    IF Len(data) < 4
    THEN [err |-> "ok", rec |-> [small |-> small, data |-> data, header |-> FALSE]]
    ELSE LET last_variable_id == data[2]
             variable_offset_start == U16(data, 2)
             num_variable == last_variable_id - 127
             variable_data_start == variable_offset_start + num_variable * 2
             have == num_variable > 0 /\ Len(data) >= 4 + num_variable * 2
             tagged_data_start ==
                 IF have
                 THEN variable_data_start + (U16(data, variable_data_start - 2) % fDerived)
                 ELSE variable_data_start
             rec == [small |-> small, data |-> data, header |-> TRUE,
                     tagged_data_start |-> tagged_data_start]
             counted(first) ==
                 IF first.err # "ok" THEN [err |-> first.err]
                 ELSE [err |-> "ok",
                       rec |-> [tagged_data_count |-> first.tf.offset \div 4] @@ rec]
         IN  IF Len(data) >= tagged_data_start + 4
             THEN counted(TagFieldNew(rec, tagged_data_start))
             ELSE [err |-> "ok", rec |-> [tagged_data_count |-> 0] @@ rec]

\* TAGFLD::CmpTagfld2: the derived bit flipped, over the identifier.
CmpKey(ident, raw) == (IF HasBit(raw, fDerived) THEN 0 ELSE 65536) + ident

RECURSIVE find_tag_loop_swapped(_, _, _, _)
\* The slip of a binary search with the two comparisons exchanged.
find_tag_loop_swapped(rec, value2, min_idx, max_idx) ==
    IF min_idx = max_idx THEN min_idx
    ELSE LET test_idx == min_idx + (max_idx - min_idx) \div 2
             pos == rec.tagged_data_start + 4 * test_idx
             value1 == CmpKey(U16(rec.data, pos), U16(rec.data, pos + 2))
         IN  IF value1 > value2 THEN find_tag_loop_swapped(rec, value2, test_idx + 1, max_idx)
             ELSE IF value1 = value2 THEN test_idx
             ELSE find_tag_loop_swapped(rec, value2, min_idx, test_idx)

RECURSIVE find_tag_loop(_, _, _, _)
\* The while loop of _find_tag_field_idx.
find_tag_loop(rec, value2, min_idx, max_idx) ==
    IF min_idx = max_idx THEN min_idx
    ELSE LET test_idx == min_idx + (max_idx - min_idx) \div 2
             pos == rec.tagged_data_start + 4 * test_idx
             value1 == CmpKey(U16(rec.data, pos), U16(rec.data, pos + 2))
         IN  IF value1 < value2 THEN find_tag_loop(rec, value2, test_idx + 1, max_idx)
             ELSE IF value1 = value2 THEN test_idx
             ELSE find_tag_loop(rec, value2, min_idx, test_idx)

\* RecordData._find_tag_field_idx(identifier): the index, or -1 for None.
find_tag_field_idx(rec, identifier) ==
    IF rec.tagged_data_count = 0 THEN -1
    ELSE LET found(idx) ==
                 IF U16(rec.data, rec.tagged_data_start + 4 * idx) = identifier
                 THEN idx ELSE -1
         IN  found(find_tag_loop(rec, CmpKey(identifier, 0), 0, rec.tagged_data_count - 1))

\* RecordData._get_tagged(column): the tag field and the value; a local
\* variable read before it was bound raises UnboundLocalError.
get_tagged(rec, identifier) ==
    LET sliced(idx, f, data_end) ==
            IF is_null(rec, f) THEN [err |-> "UnboundLocalError"]
            ELSE [err |-> "ok", tag |-> TRUE, flags |-> f.flags,
                  value |-> PyBytes(Slice(rec.data,
                       rec.tagged_data_start + f.offset
                           + (IF f.has_extended_info THEN 1 ELSE 0),
                       rec.tagged_data_start + data_end))]
        ended(idx, f, nx) ==
            IF nx.err # "ok" THEN [err |-> nx.err]
            ELSE sliced(idx, f, nx.tf.offset)
        got(idx, t) ==
            IF t.err # "ok" THEN [err |-> t.err]
            ELSE IF idx + 1 < rec.tagged_data_count
            THEN ended(idx, t.tf, TagFieldNew(rec, rec.tagged_data_start + 4 * (idx + 1)))
            ELSE sliced(idx, t.tf, Len(rec.data) - rec.tagged_data_start)
        at(idx) ==
            IF idx = -1 THEN [err |-> "ok", tag |-> FALSE, flags |-> 0, value |-> PyNone]
            ELSE got(idx, TagFieldNew(rec, rec.tagged_data_start + 4 * idx))
    IN  at(find_tag_field_idx(rec, identifier))

\* RecordData._parse_value for a binary column (its parse function is
\* bytes).  Multi-values and separated values are not modelled: the
\* branches are marked, and no generated field takes them.
parse_value(value, tag, flags) ==
    IF tag /\ HasBit(flags, TAGFLD_MultiValues) THEN [err |-> "multi-value"]
    ELSE IF tag /\ HasBit(flags, TAGFLD_Separated) THEN [err |-> "separated"]
    ELSE IF tag /\ HasBit(flags, TAGFLD_Compressed)
    THEN LET d == decompress(value.v)
         IN  IF d.err # "ok" THEN d ELSE [err |-> "ok", ret |-> PyBytes(d.ret)]
    ELSE [err |-> "ok", ret |-> value]

\* RecordData.get(column, raw) for a tagged column without a default.
RecordDataGet(rec, identifier, raw) ==
    IF ~rec.header THEN [err |-> "ok", ret |-> PyNone]
    ELSE LET out(t) ==
                 IF t.err # "ok" THEN [err |-> t.err]
                 ELSE IF raw THEN [err |-> "ok", ret |-> t.value]
                 ELSE IF t.value.k # "none" THEN parse_value(t.value, t.tag, t.flags)
                 ELSE [err |-> "ok", ret |-> PyNone]
         IN  out(get_tagged(rec, identifier))

(***************************************************************************)
(* Generated records: no fixed or variable columns, and up to MaxTagged     *)
(* tagged fields in identifier order, each null or with data.               *)
(***************************************************************************)
TaggedIds == {256, 257, 258}

\* A tagged field: null or not, with or without the header byte (small
\* pages only; large pages always have it), its flags and its data.
FieldKinds ==
    [null : {TRUE}, ext : BOOLEAN, flags : {0}, payload : {<<>>}]
    \cup [null : {FALSE}, ext : BOOLEAN, flags : {0, 1}, payload : {<<>>, <<7>>}]

\* Whether the field is stored with a header byte, and the byte.
HasHeaderByte(small, f) == IF small THEN f.ext /\ ~f.null ELSE TRUE
HeaderByte(small, f) == IF f.null /\ ~small THEN TAGFLD_Null + f.flags ELSE f.flags
FieldBytes(small, f) ==
    (IF HasHeaderByte(small, f) THEN <<HeaderByte(small, f)>> ELSE <<>>) \o f.payload

RECURSIVE Flatten(_)
Flatten(ss) == IF ss = <<>> THEN <<>> ELSE Head(ss) \o Flatten(Tail(ss))

\* The offset field of the i-th TAGFLD: where its data starts, with the
\* flag bits of small pages.
FieldOffset(small, ids, fs, i) ==
    4 * Len(fs) + Len(Flatten([j \in 1..(i - 1) |-> FieldBytes(small, fs[j])]))
    + (IF small /\ fs[i].null THEN fNullSmallPage ELSE 0)
    + (IF small /\ HasHeaderByte(small, fs[i]) THEN fExtendedInfo ELSE 0)

RecordBytes(small, ids, fs) ==
    <<0, 127, 4, 0>>
    \o Flatten([i \in 1..Len(fs) |-> LE16(ids[i]) \o LE16(FieldOffset(small, ids, fs, i))])
    \o Flatten([i \in 1..Len(fs) |-> FieldBytes(small, fs[i])])

InitTag ==
    /\ \E small \in BOOLEAN, n \in 0..MaxTagged :
          \E ids \in [1..n -> TaggedIds], fs \in [1..n -> FieldKinds] :
              /\ \A i \in 1..(n - 1) : ids[i] < ids[i + 1]
              /\ pages = [small |-> small, ids |-> ids, fields |-> fs,
                          data |-> RecordBytes(small, ids, fs)]
    /\ tbl = [state |-> "raw"]
    /\ bt = Idle
    /\ cur = Idle
    /\ mon = Idle
    /\ walk = Idle
    /\ res = [op |-> "init"]

\* record = Record(table, node)
DoRecordData ==
    /\ tbl.state = "raw"
    /\ \E r \in {RecordDataNew(pages.small, pages.data)} :
          /\ tbl' = IF r.err = "ok" THEN [state |-> "parsed", rec |-> r.rec]
                    ELSE [state |-> "failed"]
          /\ res' = [op |-> "Record", err |-> r.err]
    /\ UNCHANGED <<pages, bt, cur, mon, walk>>

\* record.get(column, raw)
DoGet(identifier, raw) ==
    /\ tbl.state = "parsed"
    /\ res' = [op |-> "get", identifier |-> identifier, raw |-> raw,
               out |-> RecordDataGet(tbl.rec, identifier, raw)]
    /\ UNCHANGED <<pages, tbl, bt, cur, mon, walk>>

NextTag ==
    \/ DoRecordData
    \/ \E identifier \in TaggedIds, raw \in BOOLEAN : DoGet(identifier, raw)

SpecTag == InitTag /\ [][NextTag]_vars

\* The tagged field with the identifier is in the record, flagged null.
NullFieldPresent(identifier) ==
    \E i \in DOMAIN pages.ids : pages.ids[i] = identifier /\ pages.fields[i].null

\* C16 as stated: get on a tagged column whose field is present in the
\* record and flagged null returns null, raw or parsed, without raising.
C16_NullTaggedReturnsNull ==
    (res.op = "get" /\ NullFieldPresent(res.identifier))
        => (res.out.err = "ok" /\ res.out.ret = PyNone)

\* C16 witness: on a large page, a record whose only tagged field has the
\* Null bit in its header byte was asked for that field, and the call raised
\* UnboundLocalError.
C16_Witness ==
    /\ res.op = "get" /\ ~pages.small /\ Len(pages.ids) = 1
    /\ NullFieldPresent(res.identifier)
    /\ res.out.err = "UnboundLocalError"

(***************************************************************************)
(* cursor.py: search_key(key, exact=False) and seek_key(key) on a cursor    *)
(* over the primary index of a generated table tree.                        *)
(***************************************************************************)
\* Cursor.seek_key(key): self._primary.search(key, exact=False).
CursorSeekKey(c, key) ==
    LET after(r) == [err |-> r.err, cur |-> [c EXCEPT !.primary = r.bt]]
    IN  after(BTreeSearch(c.primary, key, FALSE))

InitSeek ==
    /\ \E s \in UniqueKeySeqs, cap \in 1..MaxCap :
          pages = TreePages(KeyEntries(s), cap, Fan, 0)
    /\ tbl = [name |-> "T", root |-> RootOf(pages)]
    /\ cur = CursorNew([root |-> RootOf(pages), is_primary |-> TRUE])
    /\ bt = Idle
    /\ mon = Idle
    /\ walk = Idle
    /\ res = [op |-> "init"]

\* cursor.search_key(key, exact=False)
DoSearchKeyInexact(key) ==
    /\ \E r \in {CursorSearchKey(cur, key, FALSE)} :
          /\ cur' = r.cur
          /\ res' = [op |-> "search_key", key |-> key, err |-> r.err,
                     reset |-> cur.primary = BTreeNew(cur.index.root)]
    /\ UNCHANGED <<pages, tbl, bt, mon, walk>>

\* cursor.seek_key(key)
DoSeekKey(key) ==
    /\ \E r \in {CursorSeekKey(cur, key)} :
          /\ cur' = r.cur
          /\ res' = [op |-> "seek_key", key |-> key, err |-> r.err,
                     reset |-> cur.primary = BTreeNew(cur.index.root)]
    /\ UNCHANGED <<pages, tbl, bt, mon, walk>>

\* cursor.reset()
DoSeekReset ==
    /\ cur' = CursorReset(cur)
    /\ res' = [op |-> "reset"]
    /\ UNCHANGED <<pages, tbl, bt, mon, walk>>

NextSeek ==
    \/ \E key \in SearchKeys : DoSearchKeyInexact(key)
    \/ \E key \in SearchKeys : DoSeekKey(key)
    \/ DoSeekReset

SpecSeek == InitSeek /\ [][NextSeek]_vars

\* The keys of the tree that are greater than or equal to key.
KeysFrom(key) == {k \in StoredKeys : BytesLeq(key, k)}

\* C17 as stated: after search_key(key, exact=False) or seek_key(key) on a
\* reset cursor over a tree that holds a key greater than or equal to key,
\* the cursor is on the record with the least such key.
C17_SeekLeastGreaterOrEqual ==
    (/\ res.op \in {"search_key", "seek_key"} /\ res.reset
     /\ KeysFrom(res.key) # {})
        => /\ res.err = "ok"
           /\ is_leaf(pages[cur.primary.page])
           /\ NodeInRange(pages[cur.primary.page], cur.primary.node_num)
           /\ NodeAt(cur.primary.page, cur.primary.node_num).key \in KeysFrom(res.key)
           /\ \A k \in KeysFrom(res.key) :
                 BytesLeq(NodeAt(cur.primary.page, cur.primary.node_num).key, k)

\* C17 witness: a seek from the root for a key that lies between the last
\* key of one leaf page and the first key of the next left the cursor on
\* the last node of the earlier page, on a key less than the one sought.
C17_Witness ==
    /\ res.op = "seek_key" /\ res.reset /\ res.err = "ok"
    /\ KeysFrom(res.key) # {}
    /\ is_leaf(pages[cur.primary.page])
    /\ cur.primary.node_num = node_count(pages[cur.primary.page]) - 1
    /\ BytesLess(NodeAt(cur.primary.page, cur.primary.node_num).key, res.key)
    /\ pages[cur.primary.page].next_page # 0

(***************************************************************************)
(* btree.py: find_node on one branch page.  The keys of a branch page rise  *)
(* strictly; on the rightmost page of a level the last entry has the empty  *)
(* key, on the other pages it has a key like the rest.                      *)
(***************************************************************************)
MaxBranch == 4

BranchPage(keys) ==
    [flags |-> {}, previous_page |-> 0, next_page |-> 0,
     nodes |-> [j \in 1..Len(keys) |->
                  [key |-> keys[j], child |-> j + 1, data |-> <<j + 1, 0, 0, 0>>]]]

InitFind ==
    /\ \E n \in 1..MaxBranch, rightmost \in BOOLEAN :
          \E keys \in [1..n -> Keys \cup {<<>>}] :
              /\ \A j \in 1..(n - 1) : keys[j] # <<>>
              /\ keys[n] = <<>> <=> rightmost
              /\ \A j \in 1..(n - 1) : keys[j + 1] # <<>> => BytesLess(keys[j], keys[j + 1])
              /\ pages = <<BranchPage(keys)>>
    /\ tbl = [root |-> 1]
    /\ bt = Idle
    /\ cur = Idle
    /\ mon = Idle
    /\ walk = Idle
    /\ res = [op |-> "init"]

\* node = find_node(page, key)
DoFindNode(key) ==
    /\ res' = [op |-> "find_node", key |-> key, out |-> find_node(pages[1], key)]
    /\ UNCHANGED <<pages, tbl, bt, cur, mon, walk>>

NextFind == \E key \in SearchKeys : DoFindNode(key)

SpecFind == InitFind /\ [][NextFind]_vars

\* The entry the statement of non-inclusive upper bounds names, with the
\* entries numbered in among those whose keys count: the entry after one
\* with the key, else the first with a greater key, else the last.
BoundEntry(key, among) ==
    LET P == pages[1]
        eq == {i \in among : P.nodes[i + 1].key = key}
        gt == {i \in among : BytesLess(key, P.nodes[i + 1].key)}
    IN  IF eq # {} THEN {Min(i + 1, node_count(P) - 1) : i \in eq}
        ELSE IF gt # {} THEN {CHOOSE i \in gt : \A j \in gt : i <= j}
        ELSE {node_count(P) - 1}

\* C18 as stated: on a branch page find_node goes through the entry after
\* the one whose key equals the search key (clamped to the last entry),
\* otherwise through the first entry whose key is greater than the search
\* key, or through the last entry when no key is greater.
C18_BranchKeysUpperBounds ==
    res.op = "find_node" =>
        /\ res.out.err = "ok"
        /\ res.out.num \in BoundEntry(res.key, 0..(node_count(pages[1]) - 1))

\* C18, amended: the same, with the key of the page's last entry left out
\* of both comparisons (find_node never compares it).
C18_BranchKeysButLast ==
    res.op = "find_node" =>
        /\ res.out.err = "ok"
        /\ res.out.num \in BoundEntry(res.key, 0..(node_count(pages[1]) - 2))

\* C18 witness: on a page of four entries the search key equalled the key
\* of the second entry and the third entry was returned.
C18_Witness ==
    /\ res.op = "find_node" /\ node_count(pages[1]) = 4
    /\ pages[1].nodes[2].key = res.key
    /\ res.out.err = "ok" /\ res.out.num = 2

(***************************************************************************)
(* Claims about BTree.next and BTree.prev.                                  *)
(***************************************************************************)
\* The cursor res.from stepped to node num of page pn and got that node.
SteppedTo(pn, num) ==
    /\ res.out.err = "ok"
    /\ bt.page = pn /\ bt.node_num = num
    /\ res.out.ret = NodeAt(pn, num)

\* The step failed with NoNeighbourPage and left the cursor where it was.
NoNeighbour ==
    /\ res.out.err = "NoNeighbourPageError"
    /\ bt = res.from

\* C19: next() moves to the next node of the current page or, from the
\* page's last node, to node 0 of the page named by next_page; prev() moves
\* to the previous node or, from node 0, to the last node of the page named
\* by previous_page; when the needed sibling link is zero the call fails
\* with NoNeighbourPage.
C19_NextPrevStep ==
    LET b == res.from
        P == pages[b.page]
    IN  /\ res.op = "next" =>
              IF b.node_num < node_count(P) - 1
              THEN SteppedTo(b.page, b.node_num + 1)
              ELSE IF P.next_page # 0
              THEN SteppedTo(P.next_page, 0)
              ELSE NoNeighbour
        /\ res.op = "prev" =>
              IF b.node_num > 0
              THEN SteppedTo(b.page, b.node_num - 1)
              ELSE IF P.previous_page # 0
              THEN SteppedTo(P.previous_page, node_count(pages[P.previous_page]) - 1)
              ELSE NoNeighbour

\* C19 witness: next() left the second, last node of a leaf page for node 0
\* of the page its next_page names.
C19_Witness ==
    /\ res.op = "next"
    /\ res.from.node_num = 1
    /\ node_count(pages[res.from.page]) = 2
    /\ pages[res.from.page].next_page # 0
    /\ bt.page = pages[res.from.page].next_page
    /\ bt.node_num = 0
    /\ res.out.err = "ok"

(***************************************************************************)
(* Claims about the chunks of a long value.                                 *)
(***************************************************************************)
\* The chunk nodes of a long value as the tree holds them, and the offset
\* each key ends in.
ChunkNodes(key) ==
    {NodeAt(id[1], id[2]) : id \in
        {id \in LeafNodeIds :
            /\ StartsWith(pages[id[1]].nodes[id[2] + 1].key, Reverse(key))
            /\ Len(pages[id[1]].nodes[id[2] + 1].key) = 8}}

OffsetOf(node) == UnpackBE32(SubSeq(node.key, 5, 8))

\* Chunk i in key order, and the offset after it.
ChunkInOrder(key, i) ==
    CHOOSE c \in ChunkNodes(key) :
        Cardinality({d \in ChunkNodes(key) : OffsetOf(d) < OffsetOf(c)}) = i - 1

OffsetAfter(key, i) ==
    IF i < Cardinality(ChunkNodes(key))
    THEN OffsetOf(ChunkInOrder(key, i + 1))
    ELSE UnpackLE32(SubSeq(HeaderOf(key).data, 5, 8))

\* Whether chunk i is stored compressed: its stored length differs from
\* the distance between its offset and the next.
StoredCompressed(key, i) ==
    Len(ChunkInOrder(key, i).data)
        # OffsetAfter(key, i) - OffsetOf(ChunkInOrder(key, i))

RECURSIVE EmittedFrom(_, _)
\* Chunks i.. of the value, each decompressed exactly when stored
\* compressed, concatenated in key order.
EmittedFrom(key, i) ==
    IF i > Cardinality(ChunkNodes(key)) THEN <<>>
    ELSE (IF StoredCompressed(key, i)
          THEN decompress(ChunkInOrder(key, i).data).ret
          ELSE ChunkInOrder(key, i).data) \o EmittedFrom(key, i + 1)

HasHeader(key) ==
    \E id \in LeafNodeIds : pages[id[1]].nodes[id[2] + 1].key = Reverse(key)

\* C20: get_long_value passes chunk i through decompression exactly when
\* its stored length differs from o_(i+1) - o_i (the offset after the last
\* chunk being total_size), emits every other chunk unchanged, and
\* concatenates the chunks in key order, for any number of chunks.
C20_ChunksDecompressedByLength ==
    (res.op = "get_long_value" /\ HasHeader(res.key)) =>
        /\ res.out.err = "ok"
        /\ res.out.ret = EmittedFrom(res.key, 1)

\* C20 witness: the third chunk of a value was stored with exactly the
\* length its offsets give, and the buffer returned does not end in it.
C20_Witness ==
    /\ res.op = "get_long_value" /\ res.out.err = "ok"
    /\ Cardinality(ChunkNodes(res.key)) = 3
    /\ ~StoredCompressed(res.key, 3)
    /\ LET c == ChunkInOrder(res.key, 3).data
       IN  \/ Len(res.out.ret) < Len(c)
           \/ SubSeq(res.out.ret, Len(res.out.ret) - Len(c) + 1, Len(res.out.ret)) # c

\* With at most two chunks the sum chunk_offset + next_chunk_offset is never
\* used in a comparison, and the buffer is the one C20 describes.
C20_UpToTwoChunks ==
    (res.op = "get_long_value" /\ HasHeader(res.key)
        /\ Cardinality(ChunkNodes(res.key)) <= 2) =>
        /\ res.out.err = "ok"
        /\ res.out.ret = EmittedFrom(res.key, 1)

(***************************************************************************)
(* record.py: _parse_value and _parse_multivalue on the payload of one      *)
(* tagged field, for a database not opened in impacket compatibility mode.  *)
(* Separated values and separated instances are not generated.              *)
(***************************************************************************)
TAGFLD_TwoValues == 16
fSeparatedInstance == 32768

MaxPayload == 3

PyBool(b) == [k |-> "bool", v |-> b]

\* ColumnType.parse of three column types: c_esedb.uint8 reads one byte
\* and fails on an empty buffer, decode_bit compares it with 0xFF, bytes
\* keeps the buffer.
ctype_parse(ctype, buf) ==
    IF ctype = "Binary" THEN [err |-> "ok", ret |-> PyBytes(buf)]
    ELSE IF buf = <<>> THEN [err |-> "EOFError"]
    ELSE IF ctype = "UnsignedByte" THEN [err |-> "ok", ret |-> PyInt(buf[1])]
    ELSE [err |-> "ok", ret |-> PyBool(buf[1] = 255)]

\* compression.decompress on a buffer that may be empty (buf[0] fails).
decompress_value(buf) ==
    IF buf = <<>> THEN [err |-> "IndexError"] ELSE decompress(buf)

RECURSIVE multivalue_loop(_, _, _, _)
\* The for loop of _parse_multivalue over range(num_values).
multivalue_loop(value, value_offsets, i, values) ==
    IF i > Len(value_offsets) - 1 THEN [err |-> "ok", ret |-> values]
    ELSE IF HasBit(value_offsets[i], fSeparatedInstance) THEN [err |-> "separated"]
    ELSE multivalue_loop(value, value_offsets, i + 1,
             Append(values, Slice(value, value_offsets[i] % fSeparatedInstance,
                                  value_offsets[i + 1] % fSeparatedInstance)))

\* The slip of splitting two values without skipping the size byte.
parse_multivalue_keep_size(value, flags) ==
    IF value = <<>> THEN [err |-> "IndexError"]
    ELSE [err |-> "ok",
          ret |-> <<Slice(value, 0, value[1]), Slice(value, value[1], Len(value))>>]

\* RecordData._parse_multivalue(value, tag_field): the list of raw values.
parse_multivalue(value, flags) ==
    LET two ==
            IF value = <<>> THEN [err |-> "IndexError"]
            ELSE LET first_size == value[1]
                     second_size == Len(value) - (1 + first_size)
                 IN  [err |-> "ok",
                      ret |-> <<Slice(value, 1, 1 + first_size),
                                IF 1 + first_size + second_size < 0 THEN <<>>
                                ELSE Slice(value, 1 + first_size,
                                           1 + first_size + second_size)>>]
        many ==
            IF Len(value) < 2 THEN [err |-> "struct.error"]
            ELSE LET first_value_offset == U16(value, 0) % fSeparatedInstance
                     num_values == first_value_offset \div 2
                 IN  IF Len(Slice(value, 0, first_value_offset)) # 2 * num_values
                     THEN [err |-> "struct.error"]
                     ELSE multivalue_loop(value,
                              [j \in 1..num_values |-> U16(value, 2 * (j - 1))]
                                  \o <<Len(value)>>, 1, <<>>)
        first(vs) ==
            IF vs.err # "ok" THEN vs
            ELSE IF ~HasBit(flags, TAGFLD_Compressed) THEN vs
            ELSE IF vs.ret = <<>> THEN [err |-> "IndexError"]
            ELSE LET d == decompress_value(vs.ret[1])
                 IN  IF d.err # "ok" THEN [err |-> d.err]
                     ELSE [err |-> "ok", ret |-> <<d.ret>> \o Tail(vs.ret)]
    IN  first(IF HasBit(flags, TAGFLD_TwoValues) THEN two ELSE many)

RECURSIVE parse_each(_, _)
\* list(map(parse_func, value)).
parse_each(ctype, values) ==
    IF values = <<>> THEN [err |-> "ok", ret |-> <<>>]
    ELSE LET h == ctype_parse(ctype, Head(values))
             t == parse_each(ctype, Tail(values))
         IN  IF h.err # "ok" THEN h
             ELSE IF t.err # "ok" THEN t
             ELSE [err |-> "ok", ret |-> <<h.ret>> \o t.ret]

\* RecordData._parse_value(column, value, tag_field) with a tag field.
parse_value_tagged(ctype, value, flags) ==
    IF HasBit(flags, TAGFLD_MultiValues)
    THEN LET listed(vs) ==
                 IF vs.err # "ok" THEN vs
                 ELSE LET ps == parse_each(ctype, vs.ret)
                      IN  IF ps.err # "ok" THEN ps
                          ELSE [err |-> "ok", ret |-> PyList(ps.ret)]
         IN  listed(parse_multivalue(value, flags))
    ELSE IF HasBit(flags, TAGFLD_Separated) THEN [err |-> "separated"]
    ELSE IF HasBit(flags, TAGFLD_Compressed)
    THEN LET d == decompress_value(value)
         IN  IF d.err # "ok" THEN d ELSE ctype_parse(ctype, d.ret)
    ELSE ctype_parse(ctype, value)

ColumnTypes == {"Binary", "UnsignedByte", "Bit"}
PayloadBytes == {0, 1, 2, 8, 255}
Payloads == UNION {[1..n -> PayloadBytes] : n \in 0..MaxPayload}
ValueFlags ==
    {c + m + t : c \in {0, TAGFLD_Compressed}, m \in {0, TAGFLD_MultiValues},
                 t \in {0, TAGFLD_TwoValues}}

InitMV ==
    /\ \E ctype \in ColumnTypes, flags \in ValueFlags, value \in Payloads :
          pages = [ctype |-> ctype, flags |-> flags, value |-> value]
    /\ tbl = Idle
    /\ bt = Idle
    /\ cur = Idle
    /\ mon = Idle
    /\ walk = Idle
    /\ res = [op |-> "init"]

\* self._parse_value(column, value, tag_field)
DoParseValue ==
    /\ res.op = "init"
    /\ res' = [op |-> "parse_value",
               out |-> parse_value_tagged(pages.ctype, pages.value, pages.flags)]
    /\ UNCHANGED <<pages, tbl, bt, cur, mon, walk>>

\* The multi-value path on its own: the raw elements before parsing.
DoParseMultivalue ==
    /\ res.op = "init"
    /\ HasBit(pages.flags, TAGFLD_MultiValues)
    /\ res' = [op |-> "parse_multivalue", out |-> parse_multivalue(pages.value, pages.flags)]
    /\ UNCHANGED <<pages, tbl, bt, cur, mon, walk>>

NextMV == DoParseValue \/ DoParseMultivalue

SpecMV == InitMV /\ [][NextMV]_vars

\* value1 and value2 of the payload [size_u8][value1][value2].
Value1(value) == SubSeq(value, 2, Min(1 + value[1], Len(value)))
Value2(value) == SubSeq(value, 2 + value[1], Len(value))

\* The two values parsed with the column type: the list, or the failure of
\* the parse function.
TwoParsed(ctype, v1, v2) ==
    LET ps == parse_each(ctype, <<v1, v2>>)
    IN  IF ps.err # "ok" THEN ps ELSE [err |-> "ok", ret |-> PyList(ps.ret)]

\* C21 as stated: a tagged field whose header flags have TwoValues set is
\* decoded as the two elements of the payload [size_u8][value1][value2],
\* each parsed with the column type, giving a two-element list.
C21_TwoValuesSplit ==
    (res.op = "parse_value" /\ HasBit(pages.flags, TAGFLD_TwoValues)
        /\ pages.value # <<>>)
        => res.out = TwoParsed(pages.ctype, Value1(pages.value), Value2(pages.value))

\* C21, amended: the split is made when MultiValues is set as well as
\* TwoValues, and with Compressed also set value1 is decompressed before it
\* is parsed.
C21_TwoValuesOfMultiValues ==
    (res.op = "parse_value" /\ HasBit(pages.flags, TAGFLD_TwoValues)
        /\ HasBit(pages.flags, TAGFLD_MultiValues) /\ pages.value # <<>>)
        => IF HasBit(pages.flags, TAGFLD_Compressed)
           THEN LET d == decompress_value(Value1(pages.value))
                IN  IF d.err # "ok" THEN res.out = d
                    ELSE res.out = TwoParsed(pages.ctype, d.ret, Value2(pages.value))
           ELSE res.out = TwoParsed(pages.ctype, Value1(pages.value), Value2(pages.value))

\* C21 witness: the payload 01 02 FF of an UnsignedByte column flagged
\* MultiValues and TwoValues came back as the list [2, 255].
C21_Witness ==
    /\ res.op = "parse_value"
    /\ pages.flags = TAGFLD_MultiValues + TAGFLD_TwoValues
    /\ pages.ctype = "UnsignedByte" /\ pages.value = <<1, 2, 255>>
    /\ res.out = [err |-> "ok", ret |-> PyList(<<PyInt(2), PyInt(255)>>)]

(***************************************************************************)
(* table.py: Table._add_column and the offsets of the fixed columns.  A     *)
(* column is its identifier, its size and the offset the table gave it      *)
(* (-1 for None); a table is the list of its columns in the order they      *)
(* were added and the running _fixed_value_offset.                          *)
(***************************************************************************)
MaxCols == 3

NoOffset == -1

\* Table.__init__ without columns.
TableNew == [columns |-> <<>>, fixed_value_offset |-> 0]

\* The slip of advancing the running offset by one per column.
add_column_by_one(t, column) ==
    IF column.identifier < 128
    THEN [columns |-> Append(t.columns, [column EXCEPT !.offset = t.fixed_value_offset]),
          fixed_value_offset |-> t.fixed_value_offset + 1]
    ELSE [t EXCEPT !.columns = Append(t.columns, column)]

\* Table._add_column(column).
add_column(t, column) ==
    IF column.identifier < 128
    THEN [columns |-> Append(t.columns, [column EXCEPT !.offset = t.fixed_value_offset]),
          fixed_value_offset |-> t.fixed_value_offset + column.size]
    ELSE [t EXCEPT !.columns = Append(t.columns, column)]

ColumnIds == {1, 2, 3, 128, 256}
ColumnSizes == {1, 2}

InitCol ==
    /\ tbl = TableNew
    /\ pages = Idle
    /\ bt = Idle
    /\ cur = Idle
    /\ mon = Idle
    /\ walk = Idle
    /\ res = [op |-> "init"]

\* table._add_column(Column(identifier, name, type)) with a new column.
DoAddColumn(identifier, size) ==
    /\ Len(tbl.columns) < MaxCols
    /\ \A i \in 1..Len(tbl.columns) : tbl.columns[i].identifier # identifier
    /\ tbl' = add_column(tbl, [identifier |-> identifier, size |-> size,
                                offset |-> NoOffset])
    /\ res' = [op |-> "add_column", identifier |-> identifier]
    /\ UNCHANGED <<pages, bt, cur, mon, walk>>

\* table.columns[i].offset
DoColumnOffset(i) ==
    /\ i <= Len(tbl.columns)
    /\ res' = [op |-> "offset", identifier |-> tbl.columns[i].identifier,
               out |-> tbl.columns[i].offset]
    /\ UNCHANGED <<pages, tbl, bt, cur, mon, walk>>

NextCol ==
    \/ \E identifier \in ColumnIds, size \in ColumnSizes : DoAddColumn(identifier, size)
    \/ \E i \in 1..MaxCols : DoColumnOffset(i)

SpecCol == InitCol /\ [][NextCol]_vars

RECURSIVE SumSizes(_, _)
\* The sum of the sizes of the columns of t at the positions in among.
SumSizes(t, among) ==
    IF among = {} THEN 0
    ELSE LET i == CHOOSE i \in among : TRUE
         IN  t.columns[i].size + SumSizes(t, among \ {i})

FixedAt(t) == {i \in 1..Len(t.columns) : t.columns[i].identifier < 128}

\* No column's offset differs between t and the table u it became.
OffsetsKept(t, u) ==
    \A i \in 1..Len(t.columns) : u.columns[i].offset = t.columns[i].offset

\* C22 as stated: the offset of each fixed column is the sum of the sizes of
\* the table's fixed columns with smaller identifiers; it is assigned when
\* the column is added and no later operation on the table changes it.
C22_FixedOffsetsByIdentifier ==
    [][/\ \A i \in FixedAt(tbl') :
            tbl'.columns[i].offset =
                SumSizes(tbl', {j \in FixedAt(tbl') :
                    tbl'.columns[j].identifier < tbl'.columns[i].identifier})
       /\ OffsetsKept(tbl, tbl')]_vars

\* C22, amended: the offset of each fixed column is the sum of the sizes of
\* the fixed columns added to the table before it; it is assigned when the
\* column is added and no later operation on the table changes it.
C22_FixedOffsetsByAddition ==
    [][/\ \A i \in FixedAt(tbl') :
            tbl'.columns[i].offset = SumSizes(tbl', {j \in FixedAt(tbl') : j < i})
       /\ OffsetsKept(tbl, tbl')]_vars

\* C22 witness: the fixed columns 1, 2 and 3 were added in that order, the
\* first two of size 2, and column 3 has the offset 4.
C22_Witness ==
    /\ res.op = "add_column" /\ res.identifier = 3
    /\ Len(tbl.columns) = 3
    /\ tbl.columns[1].identifier = 1 /\ tbl.columns[1].size = 2
    /\ tbl.columns[2].identifier = 2 /\ tbl.columns[2].size = 2
    /\ tbl.columns[3].offset = 4

(***************************************************************************)
(* record.py: _find_tag_field_idx on records whose TAGFLD array is sorted   *)
(* by the comparison key: the derived entries first, then the others, each  *)
(* group by identifier.  Every field is stored as a header byte and one     *)
(* byte of data.                                                            *)
(***************************************************************************)
MaxTagIdx == 3

TagEntries == [identifier : TaggedIds, derived : BOOLEAN]

\* The bytes of a record with the tagged fields es and nothing else.
TagIdxBytes(small, es) ==
    <<0, 127, 4, 0>>
    \o Flatten([i \in 1..Len(es) |->
          LE16(es[i].identifier)
          \o LE16(4 * Len(es) + 2 * (i - 1)
                  + (IF es[i].derived THEN fDerived ELSE 0)
                  + (IF small THEN fExtendedInfo ELSE 0))])
    \o Flatten([i \in 1..Len(es) |-> <<0, 7>>])

InitTagIdx ==
    /\ \E small \in BOOLEAN, n \in 0..MaxTagIdx :
          \E es \in [1..n -> TagEntries] :
              /\ \A i \in 1..(n - 1) :
                    CmpKey(es[i].identifier, IF es[i].derived THEN fDerived ELSE 0)
                      <= CmpKey(es[i + 1].identifier,
                                IF es[i + 1].derived THEN fDerived ELSE 0)
              /\ pages = [small |-> small, entries |-> es, data |-> TagIdxBytes(small, es)]
              /\ tbl = [state |-> "parsed",
                        rec |-> RecordDataNew(small, TagIdxBytes(small, es)).rec]
    /\ bt = Idle
    /\ cur = Idle
    /\ mon = Idle
    /\ walk = Idle
    /\ res = [op |-> "init"]

\* idx = self._find_tag_field_idx(column.identifier)
DoFindTagFieldIdx(identifier) ==
    /\ res' = [op |-> "find_tag_field_idx", identifier |-> identifier,
               out |-> find_tag_field_idx(tbl.rec, identifier)]
    /\ UNCHANGED <<pages, tbl, bt, cur, mon, walk>>

\* tag_field, value = self._get_tagged(column)
DoGetTagged(identifier) ==
    /\ res' = [op |-> "get_tagged", identifier |-> identifier,
               out |-> get_tagged(tbl.rec, identifier)]
    /\ UNCHANGED <<pages, tbl, bt, cur, mon, walk>>

NextTagIdx ==
    \E identifier \in TaggedIds :
        DoFindTagFieldIdx(identifier) \/ DoGetTagged(identifier)

SpecTagIdx == InitTagIdx /\ [][NextTagIdx]_vars

\* The positions (from 0) of the entries with the identifier, and of the
\* non-derived ones among them.
Carrying(identifier) ==
    {i - 1 : i \in {i \in DOMAIN pages.entries : pages.entries[i].identifier = identifier}}
CarryingPlain(identifier) ==
    {i \in Carrying(identifier) : ~pages.entries[i + 1].derived}

\* C23: on a record whose tagged-field index is sorted by the comparison
\* key, _find_tag_field_idx(identifier) returns the index of an entry with
\* the identifier whenever a non-derived entry with it exists, and None
\* whenever no entry carries the identifier or the record has no tagged
\* fields; _get_tagged then gives no tag field and the column default.
C23_FindTagFieldIdx ==
    /\ res.op = "find_tag_field_idx" =>
          /\ CarryingPlain(res.identifier) # {} => res.out \in Carrying(res.identifier)
          /\ Carrying(res.identifier) = {} => res.out = -1
    /\ (res.op = "get_tagged" /\ Carrying(res.identifier) = {}) =>
          (res.out.err = "ok" /\ ~res.out.tag /\ res.out.value = PyNone)

\* C23 witness: two derived entries come before the non-derived entry 256,
\* and the search for 256 returned index 2.
C23_Witness ==
    /\ res.op = "find_tag_field_idx" /\ res.identifier = 256
    /\ Len(pages.entries) = 3
    /\ pages.entries[1].derived /\ pages.entries[2].derived
    /\ pages.entries[3] = [identifier |-> 256, derived |-> FALSE]
    /\ res.out = 2

(***************************************************************************)
(* index.py: Index.make_key on its own, for indexes over up to three        *)
(* columns with a small key budget.  A null value encodes to one byte, a    *)
(* Bit or UnsignedByte value to two.                                        *)
(***************************************************************************)
MaxKeyMost == 5

KeyColumnNames == {"Id", "Flag", "Tags"}
KeyValues == {PyNone, PyInt(0), PyInt(1)}

KeyColumnLists ==
    {cs \in UNION {[1..n -> KeyColumnNames] : n \in 0..3} :
        \A i, j \in 1..Len(cs) : i # j => cs[i] # cs[j]}

KeyValueMaps == UNION {[S -> KeyValues] : S \in SUBSET KeyColumnNames}

InitKey ==
    /\ \E cs \in KeyColumnLists, key_most \in 1..MaxKeyMost :
          tbl = [index |-> [columns |-> cs, key_most |-> key_most,
                            var_seg_mac |-> key_most]]
    /\ pages = Idle
    /\ bt = Idle
    /\ cur = Idle
    /\ mon = Idle
    /\ walk = Idle
    /\ res = [op |-> "init"]

\* key = index.make_key(values)
DoMakeKey(values) ==
    /\ res' = [op |-> "make_key", values |-> values, out |-> make_key(tbl.index, values)]
    /\ UNCHANGED <<pages, tbl, bt, cur, mon, walk>>

NextKey == \E values \in KeyValueMaps : DoMakeKey(values)

SpecKey == InitKey /\ [][NextKey]_vars

\* How many leading index columns have a value in values.
LeadingPresent(index, values) ==
    CHOOSE n \in 0..Len(index.columns) :
        /\ \A i \in 1..n : index.columns[i] \in DOMAIN values
        /\ n < Len(index.columns) => index.columns[n + 1] \notin DOMAIN values

\* The encoded segments of those columns, joined in declaration order.
JoinedSegments(index, values) ==
    Flatten([i \in 1..LeadingPresent(index, values) |->
                encode_key(index, index.columns[i], values[index.columns[i]],
                           index.var_seg_mac)])

\* C24: make_key joins the encoded segments of the index columns in
\* declaration order up to the first column absent from values, its result
\* is never longer than _key_most, and when the segments add up to more the
\* key is exactly the first _key_most bytes of their concatenation.
C24_MakeKeyWithinBudget ==
    res.op = "make_key" =>
        LET joined == JoinedSegments(tbl.index, res.values)
        IN  /\ Len(res.out) <= tbl.index.key_most
            /\ res.out = IF Len(joined) > tbl.index.key_most
                         THEN SubSeq(joined, 1, tbl.index.key_most)
                         ELSE joined

\* C24 witness: with a budget of five bytes the two-byte segment of an
\* UnsignedByte column and the five-byte segment of a Long column were
\* joined and cut inside the second.
C24_Witness ==
    /\ res.op = "make_key" /\ tbl.index.key_most = 5
    /\ tbl.index.columns = <<"Id", "Tags">>
    /\ res.values = [n \in {"Id", "Tags"} |-> PyInt(1)]
    /\ res.out = <<bPrefixData, 1, bPrefixData, 128, 0>>

(***************************************************************************)
(* page.py: iter_leaf_nodes() run to its end on any page of a tree whose    *)
(* leaf pages carry any sibling link that does not lead to a root page      *)
(* (a root leaf page may name itself).                                      *)
(***************************************************************************)
InitIter ==
    /\ \E n \in 0..MaxKeys, cap \in 1..MaxCap :
          LET t == TreePages(KeyEntries([i \in 1..n |-> <<i>>]), cap, Fan, 0)
          IN  \E link \in [LeafPagesOf(t) -> {0} \cup DOMAIN t] :
                 /\ \A p \in LeafPagesOf(t) :
                       link[p] # 0 /\ is_root(t[link[p]]) => link[p] = p
                 /\ pages = Dirty(t, link, 0)
    /\ tbl = [root |-> RootOf(pages)]
    /\ bt = Idle
    /\ cur = Idle
    /\ mon = Idle
    /\ walk = Idle
    /\ res = [op |-> "init"]

\* list(esedb.page(pn).iter_leaf_nodes())
DoIterLeafNodes(pn) ==
    /\ pn \in DOMAIN pages
    /\ res' = [op |-> "iter_leaf_nodes", page |-> pn,
               out |-> iter_leaf_nodes(pn, RecursionLimit)]
    /\ UNCHANGED <<pages, tbl, bt, cur, mon, walk>>

NextIter == \E pn \in 1..(2 * MaxKeys + 1) : DoIterLeafNodes(pn)

SpecIter == InitIter /\ [][NextIter]_vars

RECURSIVE LeavesUnder(_)
\* The leaf nodes below a page through the child pointers alone, each
\* branch node's child in node order.
LeavesUnder(pn) ==
    IF is_leaf(pages[pn])
    THEN [i \in 1..node_count(pages[pn]) |-> NodeAt(pn, i - 1)]
    ELSE Flatten([i \in 1..node_count(pages[pn]) |->
                     LeavesUnder(pages[pn].nodes[i].child)])

\* The sibling link of the page holding the last of the leaves (0: none).
LinkAfter(leaves) ==
    IF leaves = <<>> THEN 0 ELSE pages[leaves[Len(leaves)].page].next_page

\* C25: iter_leaf_nodes() yields only leaf nodes, each branch node's child
\* in node order; invoked on a root page it yields, after that descent, the
\* leaves of the page the last leaf's page names as next_page when the link
\* is not zero; invoked on any other page it follows no sibling link.
C25_LeavesThenLastLink ==
    res.op = "iter_leaf_nodes" =>
        LET down == LeavesUnder(res.page)
        IN  /\ \A i \in 1..Len(res.out) : is_leaf(pages[res.out[i].page])
            /\ res.out =
                 IF is_root(pages[res.page]) /\ is_branch(pages[res.page])
                    /\ LinkAfter(down) # 0
                 THEN down \o LeavesUnder(LinkAfter(down))
                 ELSE down

\* C25 witness: the walk from a branch root ended with the node of the
\* first leaf page, named by the last leaf page as its next page.
C25_Witness ==
    /\ res.op = "iter_leaf_nodes" /\ res.page = tbl.root
    /\ is_branch(pages[tbl.root])
    /\ Len(res.out) = Len(LeavesUnder(tbl.root)) + 1
    /\ res.out[Len(res.out)] = NodeAt(1, 0)
    /\ Len(res.out) >= 3

(***************************************************************************)
(* table.py: Catalog.__init__.  The catalog records are those of the        *)
(* catalog table in the order records() gives them; a record is its Type    *)
(* and its place in that order, which stands for its Id and Name.  A table  *)
(* keeps the records of its columns, indexes, long-value tree and callback. *)
(***************************************************************************)
SYSOBJ_Table == 1
SYSOBJ_Column == 2
SYSOBJ_Index == 3
SYSOBJ_LongValue == 4
SYSOBJ_Callback == 5

MaxRecs == 4

\* Table(esedb, name, root_page, record=rec).
CatalogTable(rec) ==
    [record |-> rec.pos, columns |-> <<>>, fixed_value_offset |-> 0,
     indexes |-> <<>>, long_value_record |-> 0, long_callback_record |-> 0]

\* cur_table._add_column(Column(rec.get("Id"), ...)): a fixed column of
\* size 1.
CatalogAddColumn(t, rec) ==
    LET core == add_column([columns |-> t.columns,
                            fixed_value_offset |-> t.fixed_value_offset],
                           [identifier |-> rec.pos, size |-> 1, offset |-> NoOffset])
    IN  [t EXCEPT !.columns = core.columns,
                  !.fixed_value_offset = core.fixed_value_offset]

\* The slip of attaching a record to the first table instead of cur_table.
catalog_step_first(cat, rec) ==
    LET n == Len(cat.tables)
        on(f(_)) ==
            IF n = 0 THEN [err |-> "AttributeError", tables |-> cat.tables]
            ELSE [cat EXCEPT !.tables[1] = f(cat.tables[1])]
        col(t) == CatalogAddColumn(t, rec)
        idx(t) == [t EXCEPT !.indexes = Append(@, rec.pos)]
        lv(t) == [t EXCEPT !.long_value_record = rec.pos]
        cb(t) == [t EXCEPT !.long_callback_record = rec.pos]
    IN  IF rec.type = SYSOBJ_Table
        THEN [cat EXCEPT !.tables = Append(@, CatalogTable(rec))]
        ELSE IF rec.type = SYSOBJ_Column THEN on(col)
        ELSE IF rec.type = SYSOBJ_Index THEN on(idx)
        ELSE IF rec.type = SYSOBJ_LongValue THEN on(lv)
        ELSE IF rec.type = SYSOBJ_Callback THEN on(cb)
        ELSE cat

\* One round of the for loop of Catalog.__init__; cur_table is the last of
\* tables, and None (an AttributeError on its use) while there is none.
catalog_step(cat, rec) ==
    LET n == Len(cat.tables)
        on(f(_)) ==
            IF n = 0 THEN [err |-> "AttributeError", tables |-> cat.tables]
            ELSE [cat EXCEPT !.tables[n] = f(cat.tables[n])]
        col(t) == CatalogAddColumn(t, rec)
        idx(t) == [t EXCEPT !.indexes = Append(@, rec.pos)]
        lv(t) == [t EXCEPT !.long_value_record = rec.pos]
        cb(t) == [t EXCEPT !.long_callback_record = rec.pos]
    IN  IF rec.type = SYSOBJ_Table
        THEN [cat EXCEPT !.tables = Append(@, CatalogTable(rec))]
        ELSE IF rec.type = SYSOBJ_Column THEN on(col)
        ELSE IF rec.type = SYSOBJ_Index THEN on(idx)
        ELSE IF rec.type = SYSOBJ_LongValue THEN on(lv)
        ELSE IF rec.type = SYSOBJ_Callback THEN on(cb)
        ELSE cat

RECURSIVE catalog_loop(_, _)
\* The for loop over self._ctable.records().
catalog_loop(cat, recs) ==
    IF recs = <<>> \/ cat.err # "ok" THEN cat
    ELSE catalog_loop(catalog_step(cat, Head(recs)), Tail(recs))

\* Catalog(esedb, root_page).
CatalogNew(recs) == catalog_loop([err |-> "ok", tables |-> <<>>], recs)

InitCat ==
    /\ \E n \in 0..MaxRecs :
          \E types \in [1..n -> 0..SYSOBJ_Callback] :
              pages = [i \in 1..n |-> [type |-> types[i], pos |-> i]]
    /\ tbl = [state |-> "closed"]
    /\ bt = Idle
    /\ cur = Idle
    /\ mon = Idle
    /\ walk = Idle
    /\ res = [op |-> "init"]

\* self.catalog = Catalog(self, pgnoFDPMSO)
DoCatalog ==
    /\ tbl.state = "closed"
    /\ \E c \in {CatalogNew(pages)} :
          /\ tbl' = [state |-> IF c.err = "ok" THEN "open" ELSE "failed",
                     tables |-> c.tables]
          /\ res' = [op |-> "Catalog", err |-> c.err]
    /\ UNCHANGED <<pages, bt, cur, mon, walk>>

\* catalog.tables
DoTables ==
    /\ tbl.state = "open"
    /\ res' = [op |-> "tables", out |-> [i \in 1..Len(tbl.tables) |-> tbl.tables[i].record]]
    /\ UNCHANGED <<pages, tbl, bt, cur, mon, walk>>

NextCat == DoCatalog \/ DoTables

SpecCat == InitCat /\ [][NextCat]_vars

\* The places of the records of a type, in catalog order, among those
\* after place lo and before place hi.
RECURSIVE PlacesOf(_, _, _)
PlacesOf(type, lo, hi) ==
    IF lo + 1 >= hi THEN <<>>
    ELSE (IF pages[lo + 1].type = type THEN <<lo + 1>> ELSE <<>>)
         \o PlacesOf(type, lo + 1, hi)

\* The place of the next Table record after place i (one past the end
\* when there is none).
NextTableAfter(i) ==
    IF \E j \in (i + 1)..Len(pages) : pages[j].type = SYSOBJ_Table
    THEN CHOOSE j \in (i + 1)..Len(pages) :
             /\ pages[j].type = SYSOBJ_Table
             /\ \A k \in (i + 1)..(j - 1) : pages[k].type # SYSOBJ_Table
    ELSE Len(pages) + 1

LastOr0(s) == IF s = <<>> THEN 0 ELSE s[Len(s)]

\* C26: every Table record starts a table appended to tables(), and every
\* Column, Index, LongValue or Callback record that follows is attached to
\* the most recently started table: tables() and each table's columns and
\* indexes are in catalog order.
C26_CatalogOrder ==
    tbl.state = "open" =>
        /\ [i \in 1..Len(tbl.tables) |-> tbl.tables[i].record]
              = PlacesOf(SYSOBJ_Table, 0, Len(pages) + 1)
        /\ \A i \in 1..Len(tbl.tables) :
              LET t == tbl.tables[i]
                  hi == NextTableAfter(t.record)
              IN  /\ [j \in 1..Len(t.columns) |-> t.columns[j].identifier]
                        = PlacesOf(SYSOBJ_Column, t.record, hi)
                  /\ t.indexes = PlacesOf(SYSOBJ_Index, t.record, hi)
                  /\ t.long_value_record
                        = LastOr0(PlacesOf(SYSOBJ_LongValue, t.record, hi))
                  /\ t.long_callback_record
                        = LastOr0(PlacesOf(SYSOBJ_Callback, t.record, hi))

\* C26 witness: a catalog of two tables, the first with a column and the
\* second with an index.
C26_Witness ==
    /\ tbl.state = "open" /\ Len(tbl.tables) = 2 /\ Len(pages) = 4
    /\ [i \in 1..4 |-> pages[i].type]
          = <<SYSOBJ_Table, SYSOBJ_Column, SYSOBJ_Table, SYSOBJ_Index>>
    /\ Len(tbl.tables[1].columns) = 1 /\ tbl.tables[2].indexes = <<4>>

(***************************************************************************)
(* cursor.py: a cursor over a secondary index.  The table tree holds up to  *)
(* two records; the data of an index entry is the key of a table record,    *)
(* or of none: a database may hold an index entry without its record.       *)
(***************************************************************************)
MaxIdxEntries == 2

SecEntries(ds) == [i \in 1..Len(ds) |-> [key |-> <<i>>, data |-> ds[i]]]

InitSec ==
    /\ \E s \in TwoKeySeqs, cap \in 1..MaxCap, n \in 1..MaxIdxEntries :
          \E ds \in [1..n -> {<<0>>, <<1>>, <<1, 0>>}] :
              LET tp == TreePages(KeyEntries(s), cap, Fan, 0)
                  ip == TreePages(SecEntries(ds), cap, Fan, RootOf(tp))
              IN  /\ pages = tp @@ ip
                  /\ tbl = [name |-> "T", root |-> RootOf(tp)]
                  /\ cur = [index |-> [root |-> RootOf(ip), is_primary |-> FALSE],
                            primary |-> BTreeNew(RootOf(ip)),
                            secondary |-> BTreeNew(RootOf(tp))]
    /\ bt = Idle
    /\ mon = Idle
    /\ walk = Idle
    /\ res = [op |-> "init"]

\* cursor.search_key(key, exact)
DoSecSearchKey(key, exact) ==
    \E r \in {CursorSearchKey(cur, key, exact)} :
        /\ cur' = r.cur
        /\ res' = [op |-> "search_key", from |-> cur, err |-> r.err]
        /\ UNCHANGED <<pages, tbl, bt, mon, walk>>

\* cursor.next()
DoSecNext ==
    \E r \in {CursorNext(cur)} :
        /\ cur' = r.cur
        /\ res' = [op |-> "next", from |-> cur, err |-> r.err]
        /\ UNCHANGED <<pages, tbl, bt, mon, walk>>

\* cursor.record()
DoSecRecord ==
    \E r \in {CursorRecord(cur)} :
        /\ cur' = r.cur
        /\ res' = [op |-> "record", from |-> cur, out |-> r]
        /\ UNCHANGED <<pages, tbl, bt, mon, walk>>

NextSec ==
    \/ \E key \in {<<1>>, <<2>>, <<3>>}, exact \in BOOLEAN : DoSecSearchKey(key, exact)
    \/ DoSecNext
    \/ DoSecRecord

SpecSec == InitSec /\ [][NextSec]_vars

\* The leaf nodes of the table's tree that carry the key.
TableNodesWith(key) ==
    {NodeAt(id[1], id[2]) : id \in
        {id \in LeafNodeIds : id[1] <= tbl.root /\ pages[id[1]].nodes[id[2] + 1].key = key}}

\* record() was called with the cursor on a leaf node of the index tree.
RecordOnIndexLeaf ==
    /\ res.op = "record"
    /\ is_leaf(pages[res.from.primary.page])
    /\ NodeInRange(pages[res.from.primary.page], res.from.primary.node_num)

\* C27 as stated: for a cursor over a secondary index the record at the
\* cursor is the table record found by an exact search of the table's tree
\* for the data of the current index leaf node; the search starts from the
\* table root on every resolution, fails with KeyNotFound when the table
\* has no such key, and does not move the cursor in the index tree.
C27_SecondaryResolves ==
    RecordOnIndexLeaf =>
        LET data == NodeAt(res.from.primary.page, res.from.primary.node_num).data
        IN  /\ cur.primary = res.from.primary
            /\ IF TableNodesWith(data) # {}
               THEN /\ res.out.err = "ok"
                    /\ res.out.ret.node \in TableNodesWith(data)
               ELSE res.out.err = "KeyNotFoundError"

\* C27, amended: the same, the failure being KeyNotFound when the table
\* holds records but none with the key, and IndexError when the table's
\* tree holds no record at all.
C27_SecondaryResolvesNonEmpty ==
    RecordOnIndexLeaf =>
        LET data == NodeAt(res.from.primary.page, res.from.primary.node_num).data
        IN  /\ cur.primary = res.from.primary
            /\ IF TableNodesWith(data) # {}
               THEN /\ res.out.err = "ok"
                    /\ res.out.ret.node \in TableNodesWith(data)
               ELSE IF node_count(pages[tbl.root]) = 0
               THEN res.out.err = "IndexError"
               ELSE res.out.err = "KeyNotFoundError"

\* C27 witness: with the table's BTree left on the second leaf page by an
\* earlier resolution, the record of an index entry was found on the first.
C27_Witness ==
    /\ RecordOnIndexLeaf
    /\ res.from.secondary.page = 2
    /\ res.out.err = "ok" /\ res.out.ret.node.page = 1
    /\ cur.primary = res.from.primary

(***************************************************************************)
(* Claims about a step of the BTree cursor that finds no neighbour page.    *)
(***************************************************************************)
\* next() or prev() has just failed with NoNeighbourPage.
StepFailed(r) ==
    r.op \in {"next", "prev"} /\ r.out.err = "NoNeighbourPageError"

\* The node of the page a failed step started from that the cursor is to
\* stay on: the last for next(), the first for prev().
EndNode(r) ==
    IF r.op = "next" THEN node_count(pages[r.from.page]) - 1 ELSE 0

\* C28 as stated: when next() or prev() fails with NoNeighbourPage the
\* cursor's page and node index are unchanged, the cursor stays on the last
\* (first) node, and a following node() returns that same node.
C28_FailedStepKeepsNode ==
    [][/\ StepFailed(res') =>
             /\ bt' = bt
             /\ bt'.node_num = EndNode(res')
       /\ (StepFailed(res) /\ res'.op = "node") =>
             /\ res'.out.err = "ok"
             /\ res'.out.ret = NodeAt(res.from.page, EndNode(res))]_vars

\* C28, amended: the page and node index are unchanged; on a page with
\* nodes the cursor stays on the last (first) node and a following node()
\* returns it, on a page without nodes the node index stays 0 and a
\* following node() raises IndexError.
C28_FailedStepKeepsPosition ==
    [][/\ StepFailed(res') =>
             /\ bt' = bt
             /\ bt'.node_num = IF node_count(pages[bt.page]) = 0 THEN 0
                               ELSE EndNode(res')
       /\ (StepFailed(res) /\ res'.op = "node") =>
             IF node_count(pages[res.from.page]) = 0
             THEN res'.out.err = "IndexError"
             ELSE /\ res'.out.err = "ok"
                  /\ res'.out.ret = NodeAt(res.from.page, EndNode(res))]_vars

\* C28 witness: next() failed on the second, last node of a leaf page
\* without a next page, and the cursor is still there.
C28_Witness ==
    /\ res.op = "next" /\ res.out.err = "NoNeighbourPageError"
    /\ is_leaf(pages[bt.page]) /\ pages[bt.page].next_page = 0
    /\ node_count(pages[bt.page]) = 2 /\ bt.node_num = 1
    /\ bt = res.from

(***************************************************************************)
(* page.py and btree.py: the two ways over the leaves of one tree.          *)
(* Table.records() walks the branches with iter_leaf_nodes(); a BTree       *)
(* cursor sought to the first leaf node walks the sibling links with        *)
(* next() until NoNeighbourPageError.  The trees are generated trees whose  *)
(* leaf pages carry any sibling link to a leaf page, the consistent links   *)
(* among them.  walk holds the nodes the cursor visited.                    *)
(***************************************************************************)
MaxWalk == MaxKeys + 2      \* nodes one cursor walk visits before it is cut

InitWalk ==
    /\ \E n \in 0..MaxKeys, cap \in 1..MaxCap :
          LET t == TreePages(KeyEntries([i \in 1..n |-> <<i>>]), cap, Fan, 0)
          IN  \E link \in [LeafPagesOf(t) -> {0} \cup LeafPagesOf(t)] :
                 pages = Dirty(t, link, 0)
    /\ tbl = [root |-> RootOf(pages)]
    /\ bt = BTreeNew(tbl.root)
    /\ cur = Idle
    /\ mon = Idle
    /\ walk = [status |-> "new", visited |-> <<>>]
    /\ res = [op |-> "init"]

\* [node.num ... for node in table.root.iter_leaf_nodes()], as records()
\* runs it.
DoWalkRecords ==
    /\ res' = [op |-> "records", out |-> iter_leaf_nodes(tbl.root, RecursionLimit)]
    /\ UNCHANGED <<pages, tbl, bt, cur, mon, walk>>

\* A new BTree on the root, search(b"", exact=False): the cursor goes to
\* the first node of the first leaf page.
DoSeekFirst ==
    \E r \in {BTreeSearch(BTreeNew(tbl.root), <<>>, FALSE)} :
        /\ bt' = r.bt
        /\ walk' = IF r.err = "ok"
                   THEN [status |-> "walking", visited |-> <<r.ret>>]
                   ELSE [status |-> r.err, visited |-> <<>>]
        /\ res' = [op |-> "search", out |-> r]
        /\ UNCHANGED <<pages, tbl, cur, mon>>

\* One more next() of the walk.
DoWalkNext ==
    /\ walk.status = "walking"
    /\ Len(walk.visited) < MaxWalk
    /\ \E r \in {BTreeNext(bt)} :
          /\ bt' = r.bt
          /\ walk' = IF r.err = "ok"
                     THEN [walk EXCEPT !.visited = Append(@, r.ret)]
                     ELSE [walk EXCEPT !.status = r.err]
          /\ res' = [op |-> "next", out |-> r]
    /\ UNCHANGED <<pages, tbl, cur, mon>>

NextWalk ==
    \/ DoWalkRecords
    \/ DoSeekFirst
    \/ DoWalkNext

SpecWalk == InitWalk /\ [][NextWalk]_vars

RECURSIVE LeafPagesUnder(_)
\* The leaf pages below a page in branch order.
LeafPagesUnder(pn) ==
    IF is_leaf(pages[pn]) THEN <<pn>>
    ELSE Flatten([i \in 1..node_count(pages[pn]) |->
                     LeafPagesUnder(pages[pn].nodes[i].child)])

\* The sibling links agree with the branch order, the last leaf page has
\* no next page.
WellFormedLinks ==
    LET ls == LeafPagesUnder(tbl.root)
    IN  \A j \in 1..Len(ls) :
            pages[ls[j]].next_page = IF j < Len(ls) THEN ls[j + 1] ELSE 0

\* C29: on a tree whose leaf sibling links agree with the branch order, a
\* cursor placed on the first leaf node and advanced with next() until
\* NoNeighbourPageError has visited exactly the leaf nodes, in order, that
\* iter_leaf_nodes() yields on the root.
C29_WalkEqualsIteration ==
    (WellFormedLinks /\ walk.status = "NoNeighbourPageError") =>
        walk.visited = iter_leaf_nodes(tbl.root, RecursionLimit)

\* C29 witness: the walk over three leaf pages below two levels of branch
\* pages ended after the three nodes the iteration yields.
C29_Witness ==
    /\ WellFormedLinks /\ walk.status = "NoNeighbourPageError"
    /\ Len(LeafPagesUnder(tbl.root)) = 3
    /\ Len(walk.visited) = 3
    /\ walk.visited = iter_leaf_nodes(tbl.root, RecursionLimit)
    /\ res.op = "next"

(***************************************************************************)
(* btree.py: where a failed exact search leaves the cursor.                 *)
(***************************************************************************)
SearchMissed(r) ==
    r.op = "search" /\ r.exact /\ r.out.err = "KeyNotFoundError"

\* C30: after an exact search that failed with KeyNotFoundError the cursor
\* is on the leaf node a search with exact=False for the same key from the
\* same starting position selects and returns.
C30_FailedSearchRepositions ==
    SearchMissed(res) =>
        LET near == BTreeSearch(res.from, res.key, FALSE)
        IN  /\ near.err = "ok"
            /\ bt = near.bt
            /\ is_leaf(pages[bt.page])
            /\ BTreeNode(bt).ret = near.ret

\* C30 witness: the failed exact search started on the root branch page
\* and left the cursor on the second node of a leaf page.
C30_Witness ==
    /\ SearchMissed(res)
    /\ res.from = BTreeNew(tbl.root) /\ is_branch(pages[tbl.root])
    /\ is_leaf(pages[bt.page]) /\ bt.node_num = 1
    /\ bt # res.from

====
